---- MODULE Spec2Model ----
(***************************************************************************)
(* A model of mk: the single-flight parallel executor (Executor.Build,     *)
(* doBuild, executeRecipe), the resolver (Graph.Resolve with Pattern.Match *)
(* and Pattern.Expand), the build database (BuildState.IsStale, Record)    *)
(* and the hash cache (HashCache.Hash).                                    *)
(*                                                                         *)
(* Strings are sequences of one-character strings, so that prefix tests,   *)
(* pattern matching, joining and variable expansion are computed the way   *)
(* the Go code computes them.                                              *)
(***************************************************************************)
EXTENDS Integers, Sequences, FiniteSets, TLC

(***************************************************************************)
(* Bounds of the model.                                                    *)
(***************************************************************************)
\* number of targets on the command line of one invocation
MaxRootCalls == 2
\* number of edits the environment makes to files and to the output of the
\* fingerprint command
MaxEdits == 2
\* number of invocations (runs of the mk process)
MaxInvocations == 2
\* runtime.NumCPU() of the modelled host
NumCPU == 2

(***************************************************************************)
(* Strings.                                                                *)
(***************************************************************************)
Letters == {"a", "b", "c", "d", "e", "f", "g", "h", "i", "j", "k", "l", "m",
            "n", "o", "p", "q", "r", "s", "t", "u", "v", "w", "x", "y", "z"}
Digits == {"0", "1", "2", "3", "4", "5", "6", "7", "8", "9"}

isIdentStart(c) == c \in Letters \cup {"_"}
isIdentCont(c) == c \in Letters \cup Digits \cup {"_"}

\* s[from:] of Go, with from a 0-based offset
Drop(s, n) == SubSeq(s, n + 1, Len(s))
\* s[:n] of Go
Take(s, n) == SubSeq(s, 1, n)

HasPrefix(s, prefix) ==
    /\ Len(prefix) <= Len(s)
    /\ Take(s, Len(prefix)) = prefix

\* strings.IndexByte: 0-based index of the first c in s, -1 when absent
RECURSIVE IndexFrom(_, _, _)
IndexFrom(s, c, i) ==
    IF i > Len(s) THEN -1
    ELSE IF s[i] = c THEN i - 1
    ELSE IndexFrom(s, c, i + 1)

IndexByte(s, c) == IndexFrom(s, c, 1)

Contains(s, c) == IndexByte(s, c) >= 0

\* strings.Join(list, sep)
RECURSIVE Join(_, _)
Join(list, sep) ==
    IF Len(list) = 0 THEN << >>
    ELSE IF Len(list) = 1 THEN list[1]
    ELSE list[1] \o sep \o Join(Tail(list), sep)

\* strings.ReplaceAll(s, old, new) for a non-empty old
RECURSIVE ReplaceAll(_, _, _)
ReplaceAll(s, old, new) ==
    IF Len(s) = 0 THEN << >>
    ELSE IF HasPrefix(s, old) THEN new \o ReplaceAll(Drop(s, Len(old)), old, new)
    ELSE <<s[1]>> \o ReplaceAll(Tail(s), old, new)

\* the elements of a sequence
Range(s) == {s[i] : i \in 1..Len(s)}

\* the characters of the model in ASCII order; Code gives a character's rank
Ascii == <<" ", "$", "-", ".", "/",
           "0", "1", "2", "3", "4", "5", "6", "7", "8", "9", ">", "@", "_",
           "a", "b", "c", "d", "e", "f", "g", "h", "i", "j", "k", "l", "m",
           "n", "o", "p", "q", "r", "s", "t", "u", "v", "w", "x", "y", "z",
           "{", "|", "}">>

Code(c) == CHOOSE i \in 1..Len(Ascii) : Ascii[i] = c

\* a < b in Go's string order (bytewise lexicographic)
RECURSIVE StrLess(_, _)
StrLess(a, b) ==
    IF Len(b) = 0 THEN FALSE
    ELSE IF Len(a) = 0 THEN TRUE
    ELSE IF a[1] = b[1] THEN StrLess(Tail(a), Tail(b))
    ELSE Code(a[1]) < Code(b[1])

RECURSIVE InsertSorted(_, _)
InsertSorted(x, sorted) ==
    IF Len(sorted) = 0 THEN <<x>>
    ELSE IF StrLess(x, sorted[1]) THEN <<x>> \o sorted
    ELSE <<sorted[1]>> \o InsertSorted(x, Tail(sorted))

\* sort.Strings on a copy of list
RECURSIVE SortStrings(_)
SortStrings(list) ==
    IF Len(list) = 0 THEN << >>
    ELSE InsertSorted(list[1], SortStrings(Tail(list)))

\* stringSliceEqual
stringSliceEqual(a, b) ==
    /\ Len(a) = Len(b)
    /\ \A i \in 1..Len(a) : a[i] = b[i]

(***************************************************************************)
(* Pattern engine.  A Pattern is [Parts, Captures, Constraints, Raw]; a     *)
(* constraint is NoConstraint, [kind |-> "glob", Glob] or [kind |->        *)
(* "regex", Regex].                                                        *)
(* The globs of the model are made of literal characters, "*" and "?", the *)
(* regular expressions of literal characters, "." and a postfix "*".       *)
(***************************************************************************)
NoCaptures == [n \in {} |-> << >>]

\* captures[name] of a Go map: the empty string when the key is absent
CaptureOf(captures, name) ==
    IF name \in DOMAIN captures THEN captures[name] ELSE << >>

BindCapture(captures, name, value) ==
    [n \in DOMAIN captures \cup {name} |->
        IF n = name THEN value ELSE captures[n]]

\* a nil *CaptureConstraint: the capture is unconstrained
NoConstraint == [kind |-> "none"]

\* strings.Split(s, sep) for a separator of one character
RECURSIVE Split(_, _)
Split(s, sep) ==
    LET i == IndexByte(s, sep)
    IN  IF i < 0 THEN <<s>> ELSE <<Take(s, i)>> \o Split(Drop(s, i + 1), sep)

\* filepath.Match(pattern, s): "*" stands for any run of characters other
\* than the separator, "?" for one such character
RECURSIVE GlobMatch(_, _)
GlobMatch(pattern, s) ==
    IF Len(pattern) = 0 THEN Len(s) = 0
    ELSE IF pattern[1] = "*"
    THEN \E i \in 0..Len(s) :
            ~Contains(Take(s, i), "/") /\ GlobMatch(Tail(pattern), Drop(s, i))
    ELSE IF pattern[1] = "?"
    THEN Len(s) > 0 /\ s[1] # "/" /\ GlobMatch(Tail(pattern), Tail(s))
    ELSE Len(s) > 0 /\ s[1] = pattern[1] /\ GlobMatch(Tail(pattern), Tail(s))

\* Regexp.MatchString for "^(?:re)$"
RECURSIVE RegexMatch(_, _)
RegexMatch(re, s) ==
    IF Len(re) = 0 THEN Len(s) = 0
    ELSE IF Len(re) >= 2 /\ re[2] = "*"
    THEN \/ RegexMatch(Drop(re, 2), s)
         \/ Len(s) > 0 /\ re[1] \in {".", s[1]} /\ RegexMatch(re, Tail(s))
    ELSE Len(s) > 0 /\ re[1] \in {".", s[1]} /\ RegexMatch(Tail(re), Tail(s))

\* CaptureConstraint.Matches
Matches(c, s) ==
    IF c.kind = "regex" THEN RegexMatch(c.Regex, s)
    ELSE \E k \in 1..Len(Split(c.Glob, ",")) : GlobMatch(Split(c.Glob, ",")[k], s)

\* findRegexEnd from index i (counted from 0) on
RECURSIVE findRegexEnd(_, _, _, _)
findRegexEnd(s, i, inCharClass, escaped) ==
    IF i >= Len(s) THEN -1
    ELSE IF escaped THEN findRegexEnd(s, i + 1, inCharClass, FALSE)
    ELSE IF s[i + 1] = "\\" THEN findRegexEnd(s, i + 1, inCharClass, TRUE)
    ELSE IF inCharClass THEN findRegexEnd(s, i + 1, s[i + 1] # "]", FALSE)
    ELSE IF s[i + 1] = "[" THEN findRegexEnd(s, i + 1, TRUE, FALSE)
    ELSE IF s[i + 1] = "{"
    THEN LET j == IndexByte(Drop(s, i + 1), "}")
         IN  findRegexEnd(s, (IF j >= 0 THEN i + j + 1 ELSE i) + 1, FALSE, FALSE)
    ELSE IF s[i + 1] = "}" THEN i
    ELSE findRegexEnd(s, i + 1, FALSE, FALSE)

\* parseCapture from index i (counted from 0) on: [name, constraint, end],
\* end = -1 when there is no closing brace
RECURSIVE parseCapture(_, _)
parseCapture(inner, i) ==
    LET none == [name |-> << >>, constraint |-> NoConstraint, end |-> -1]
    IN  IF i >= Len(inner) THEN none
        ELSE IF inner[i + 1] = "}"
        THEN [name |-> Take(inner, i), constraint |-> NoConstraint, end |-> i]
        ELSE IF inner[i + 1] = ":"
        THEN LET closeBrace == IndexByte(Drop(inner, i + 1), "}")
             IN  IF closeBrace < 0 THEN none
                 ELSE [name |-> Take(inner, i),
                       constraint |-> [kind |-> "glob",
                                       Glob |-> SubSeq(inner, i + 2, closeBrace + i + 1)],
                       end |-> closeBrace + i + 1]
        ELSE IF inner[i + 1] = "/"
        THEN LET reEnd == findRegexEnd(inner, i + 1, FALSE, FALSE)
             IN  IF reEnd < 0 THEN none
                 ELSE [name |-> Take(inner, i),
                       constraint |-> [kind |-> "regex",
                                       Regex |-> SubSeq(inner, i + 2, reEnd)],
                       end |-> reEnd]
        ELSE parseCapture(inner, i + 1)

\* the loop of ParsePattern
RECURSIVE ParseLoop(_, _, _, _, _)
ParseLoop(rest, current, parts, captures, constraints) ==
    IF Len(rest) = 0
    THEN [Parts |-> Append(parts, current), Captures |-> captures,
          Constraints |-> constraints]
    ELSE LET idx == IndexByte(rest, "{")
         IN  IF idx < 0
             THEN [Parts |-> Append(parts, current \o rest), Captures |-> captures,
                   Constraints |-> constraints]
             ELSE LET inner == Drop(rest, idx + 1)
                      c == parseCapture(inner, 0)
                  IN  IF c.end < 0
                      THEN [Parts |-> Append(parts, current \o rest),
                            Captures |-> captures, Constraints |-> constraints]
                      ELSE ParseLoop(Drop(inner, c.end + 1), << >>,
                                     Append(parts, current \o Take(rest, idx)),
                                     Append(captures, c.name),
                                     Append(constraints, c.constraint))

ParsePattern(s) ==
    LET r == ParseLoop(s, << >>, << >>, << >>, << >>)
    IN  IF Len(r.Captures) = 0
        THEN [Parts |-> << >>, Captures |-> << >>, Constraints |-> << >>, Raw |-> s]
        ELSE [Parts |-> r.Parts, Captures |-> r.Captures,
              Constraints |-> r.Constraints, Raw |-> s]

IsPattern(p) == Len(p.Captures) > 0

\* a variant that holds every candidate for acceptable
constraintMatches_Always(p, idx, candidate) == TRUE

\* Pattern.constraintMatches; idx counts from 1 here and from 0 in the source
constraintMatches(p, idx, candidate) ==
    IF idx > Len(p.Constraints) \/ p.Constraints[idx] = NoConstraint THEN TRUE
    ELSE Matches(p.Constraints[idx], candidate)

\* Pattern.match; idx counts from 1 here and from 0 in the source.  The
\* result is [ok, captures].
RECURSIVE match(_, _, _, _)
RECURSIVE matchSplit(_, _, _, _, _)
RECURSIVE matchSplit_Longest(_, _, _, _, _)
match(p, s0, idx, captures) ==
    LET prefix == p.Parts[idx]
    IN  IF ~HasPrefix(s0, prefix) THEN [ok |-> FALSE, captures |-> NoCaptures]
        ELSE
        LET s == Drop(s0, Len(prefix))
        IN  IF idx > Len(p.Captures)
            THEN IF s = << >> THEN [ok |-> TRUE, captures |-> captures]
                 ELSE [ok |-> FALSE, captures |-> NoCaptures]
            ELSE
            LET suffix == p.Parts[idx + 1]
                captureName == p.Captures[idx]
            IN  IF idx >= Len(p.Parts) - 1 /\ suffix = << >> /\ idx >= Len(p.Captures)
                THEN \* last capture, no suffix after it: capture the rest
                     IF Contains(s, "/")
                     THEN [ok |-> FALSE, captures |-> NoCaptures]
                     ELSE IF ~constraintMatches(p, idx, s)
                     THEN [ok |-> FALSE, captures |-> NoCaptures]
                     ELSE IF captureName \in DOMAIN captures
                     THEN IF captures[captureName] # s
                          THEN [ok |-> FALSE, captures |-> NoCaptures]
                          ELSE [ok |-> TRUE, captures |-> captures]
                     ELSE [ok |-> TRUE,
                           captures |-> BindCapture(captures, captureName, s)]
                ELSE matchSplit(p, s, idx, captures, 0)

\* a loop that tries the longest candidate first: "for i := len(s); i >= 0; i--"
matchSplit_Longest(p, s, idx, captures, i) ==
    IF i > Len(s) THEN [ok |-> FALSE, captures |-> NoCaptures]
    ELSE
    LET candidate == Take(s, Len(s) - i)
        captureName == p.Captures[idx]
    IN  IF Contains(candidate, "/")
           \/ ~constraintMatches(p, idx, candidate)
           \/ (captureName \in DOMAIN captures /\ captures[captureName] # candidate)
        THEN matchSplit_Longest(p, s, idx, captures, i + 1)
        ELSE LET result == match(p, Drop(s, Len(s) - i), idx + 1,
                                 BindCapture(captures, captureName, candidate))
             IN  IF result.ok THEN result
                 ELSE matchSplit_Longest(p, s, idx, captures, i + 1)

\* the loop "for i := 0; i <= len(s); i++" of Pattern.match
matchSplit(p, s, idx, captures, i) ==
    IF i > Len(s) THEN [ok |-> FALSE, captures |-> NoCaptures]
    ELSE
    LET candidate == Take(s, i)
        captureName == p.Captures[idx]
    IN  IF Contains(candidate, "/")
        THEN matchSplit(p, s, idx, captures, i + 1)
        ELSE IF ~constraintMatches(p, idx, candidate)
        THEN matchSplit(p, s, idx, captures, i + 1)
        ELSE IF captureName \in DOMAIN captures /\ captures[captureName] # candidate
        THEN matchSplit(p, s, idx, captures, i + 1)
        ELSE LET result == match(p, Drop(s, i), idx + 1,
                                 BindCapture(captures, captureName, candidate))
             IN  IF result.ok THEN result
                 ELSE matchSplit(p, s, idx, captures, i + 1)

\* Pattern.Match
Match(p, s) ==
    IF Len(p.Captures) = 0
    THEN [ok |-> s = p.Raw, captures |-> NoCaptures]
    ELSE match(p, s, 1, NoCaptures)

\* Pattern.Expand
RECURSIVE ExpandParts(_, _, _)
ExpandParts(p, captures, i) ==
    IF i > Len(p.Parts) THEN << >>
    ELSE p.Parts[i]
         \o (IF i <= Len(p.Captures) THEN CaptureOf(captures, p.Captures[i])
             ELSE << >>)
         \o ExpandParts(p, captures, i + 1)

PatternExpand(p, captures) ==
    IF Len(p.Captures) = 0 THEN p.Raw
    ELSE ExpandParts(p, captures, 1)

(***************************************************************************)
(* Variable store.  A store is a function from names to eager values; the  *)
(* buildfiles of the model define no lazy variables and no functions.      *)
(***************************************************************************)
\* Vars.Get on a store without lazy entries: vals[name], "" when absent
VarsGet(vars, name) ==
    IF name \in DOMAIN vars THEN vars[name] ELSE << >>

\* Vars.Set
VarsSet(vars, name, value) ==
    [n \in DOMAIN vars \cup {name} |-> IF n = name THEN value ELSE vars[n]]

\* length of the identifier run at the head of s
RECURSIVE IdentRun(_, _)
IdentRun(s, i) ==
    IF i < Len(s) /\ isIdentCont(s[i + 1]) THEN IdentRun(s, i + 1) ELSE i

\* Vars.Expand: $$, ${name}, $name and a lone $.  The recipes of the model
\* contain no "$[", no "." and no ":" after a name, so the function,
\* property and substitution branches are never entered.
RECURSIVE VarsExpand(_, _)
VarsExpand(vars, s) ==
    IF Len(s) = 0 THEN << >>
    ELSE IF s[1] # "$" THEN <<s[1]>> \o VarsExpand(vars, Tail(s))
    ELSE LET r == Tail(s)
         IN  IF Len(r) = 0 THEN <<"$">>
             ELSE IF r[1] = "$" THEN <<"$">> \o VarsExpand(vars, Tail(r))
             ELSE IF r[1] = "{"
             THEN LET end == IndexByte(r, "}")
                  IN  IF end < 0
                      THEN <<"$", "{">> \o VarsExpand(vars, Tail(r))
                      ELSE VarsGet(vars, SubSeq(r, 2, end))
                           \o VarsExpand(vars, Drop(r, end + 1))
             ELSE IF isIdentStart(r[1])
             THEN LET n == IdentRun(r, 0)
                  IN  VarsGet(vars, Take(r, n)) \o VarsExpand(vars, Drop(r, n))
             ELSE <<"$">> \o VarsExpand(vars, r)

\* strings.Fields: the words of s separated by runs of spaces
RECURSIVE FieldsLoop(_, _, _)
FieldsLoop(s, word, words) ==
    IF Len(s) = 0
    THEN IF Len(word) = 0 THEN words ELSE Append(words, word)
    ELSE IF s[1] = " "
    THEN FieldsLoop(Tail(s), << >>,
                    IF Len(word) = 0 THEN words ELSE Append(words, word))
    ELSE FieldsLoop(Tail(s), Append(word, s[1]), words)

Fields(s) == FieldsLoop(s, << >>, << >>)

\* concatenation of a sequence of sequences
RECURSIVE Flatten(_)
Flatten(ss) == IF Len(ss) = 0 THEN << >> ELSE ss[1] \o Flatten(Tail(ss))

(***************************************************************************)
(* Graph: explicit rules and pattern rules, registered by addRule, the raw *)
(* rules kept for re-expansion, the configs and the variable store.        *)
(***************************************************************************)
\* Graph.addRule for a rule r of the AST (ast.go Rule), outside any scoped
\* include (scopePrefix = "")
addRule(g, vars, r) ==
    LET expandedTargets == [i \in 1..Len(r.Targets) |-> VarsExpand(vars, r.Targets[i])]
        expandedPrereqs ==
            Flatten([i \in 1..Len(r.Prereqs) |-> Fields(VarsExpand(vars, r.Prereqs[i]))])
        expandedOrderOnly ==
            Flatten([i \in 1..Len(r.OrderOnlyPrereqs) |->
                        Fields(VarsExpand(vars, r.OrderOnlyPrereqs[i]))])
        isPattern == \E i \in 1..Len(expandedTargets) :
                        IsPattern(ParsePattern(expandedTargets[i]))
        raw == Append(g.rawRules, [rule |-> r, scopePrefix |-> << >>])
    IN  IF isPattern
        THEN [g EXCEPT !.rawRules = raw, !.patterns = Append(@,
                [targetPatterns |->
                    [i \in 1..Len(expandedTargets) |-> ParsePattern(expandedTargets[i])],
                 prereqPatterns |->
                    [i \in 1..Len(expandedPrereqs) |-> ParsePattern(expandedPrereqs[i])],
                 orderOnlyPrereqPatterns |->
                    [i \in 1..Len(expandedOrderOnly) |->
                        ParsePattern(expandedOrderOnly[i])],
                 recipe |-> r.Recipe,
                 keep |-> r.Keep,
                 fingerprint |-> r.Fingerprint])]
        ELSE [g EXCEPT !.rawRules = raw, !.rules = Append(@,
                [target |-> expandedTargets[1],
                 targets |-> expandedTargets,
                 prereqs |-> expandedPrereqs,
                 orderOnlyPrereqs |-> expandedOrderOnly,
                 recipe |-> r.Recipe,
                 isTask |-> r.IsTask,
                 keep |-> r.Keep,
                 fingerprint |-> r.Fingerprint,
                 stem |-> << >>])]

(***************************************************************************)
(* Errors.  Nil is Go's nil error; the other errors keep the operands of   *)
(* the fmt.Errorf that builds them, the wrapped error under "cause".       *)
(***************************************************************************)
Nil == [kind |-> "nil"]

ErrNoRule(target) == [kind |-> "no rule to build", target |-> target]

ErrAmbiguous(target) == [kind |-> "ambiguous pattern rules", target |-> target]

\* the *exec.ExitError that cmd.Run returns for a non-zero exit
ErrExit == [kind |-> "exit status"]

ErrRecipe(target) == [kind |-> "recipe failed", target |-> target, cause |-> ErrExit]

ErrBuilding(prereq, target, cause) ==
    [kind |-> "building", prereq |-> prereq, target |-> target, cause |-> cause]

ErrUnknownConfig(name) == [kind |-> "unknown config", name |-> name]

ErrExcludes(name, other) == [kind |-> "config excludes", name |-> name, other |-> other]

(***************************************************************************)
(* Evaluation of the buildfile.  The statements are the nodes of ast.go,   *)
(* told apart by their fields as the type switch of evalNode does: Rule    *)
(* (Targets), VarAssign (Value), Conditional (Branches), ConfigDef         *)
(* (Excludes), Loop (List).  The buildfiles of the model have no include,  *)
(* no function definition and no lazy assignment.                          *)
(***************************************************************************)
NoConfigs == [n \in {} |-> << >>]

\* "g := &Graph{vars: vars, configs: ...}" of BuildGraph
EmptyGraph ==
    [rules |-> << >>, patterns |-> << >>, rawRules |-> << >>,
     configs |-> NoConfigs, vars |-> [n \in {} |-> << >>], err |-> Nil]

\* Vars.Append
VarsAppend(vars, name, value) ==
    IF VarsGet(vars, name) # << >>
    THEN VarsSet(vars, name, VarsGet(vars, name) \o <<" ">> \o value)
    ELSE VarsSet(vars, name, value)

\* the three assignment operators on store vars: "=", "+=" and "?="
Assign(vars, op, name, value) ==
    IF op = "=" THEN VarsSet(vars, name, value)
    ELSE IF op = "+=" THEN VarsAppend(vars, name, value)
    ELSE IF VarsGet(vars, name) = << >> THEN VarsSet(vars, name, value)
    ELSE vars

\* "g.vars.Set(loop.Var, item)" of evalLoop, as a step of its own
SetVar(name, item) == [Set |-> name, To |-> item]

\* Graph.evalLoop: the steps that the loop stands for, a binding of the loop
\* variable and the body for each item of the expanded list
RECURSIVE evalLoop(_, _)
evalLoop(loop, items) ==
    IF Len(items) = 0 THEN << >>
    ELSE <<SetVar(loop.Var, items[1])>> \o loop.Body \o evalLoop(loop, Tail(items))

\* Graph.evalConditional: the body of the first branch, from branch i on,
\* that is an else or whose comparison holds in store vars
RECURSIVE evalConditional(_, _, _)
evalConditional(vars, branches, i) ==
    IF i > Len(branches) THEN << >>
    ELSE LET b == branches[i]
             left == VarsExpand(vars, b.Left)
             right == VarsExpand(vars, b.Right)
         IN  IF b.Op = "else" THEN b.Body
             ELSE IF (b.Cmp = "==" /\ left = right) \/ (b.Cmp = "!=" /\ left # right)
             THEN b.Body
             ELSE evalConditional(vars, branches, i + 1)

\* Graph.evalNode for the nodes without a body
evalNode(g, n) ==
    IF "Targets" \in DOMAIN n THEN addRule(g, g.vars, n)
    ELSE IF "Value" \in DOMAIN n
    THEN [g EXCEPT !.vars = Assign(@, n.Op, VarsExpand(g.vars, n.Name),
                                   VarsExpand(g.vars, n.Value))]
    ELSE IF "Excludes" \in DOMAIN n
    THEN [g EXCEPT !.configs = [c \in DOMAIN g.configs \cup {n.Name} |->
                                   IF c = n.Name THEN n ELSE g.configs[c]]]
    ELSE [g EXCEPT !.vars = VarsSet(@, n.Set, n.To)]

\* Graph.evaluate; a loop or a conditional is replaced by the steps it
\* stands for, which are evaluated before the statements after it.  (The
\* one-element sets bind the graph after a statement to its value, so that
\* it is computed once.)
RECURSIVE evaluate(_, _)
evaluate(g, stmts) ==
    IF Len(stmts) = 0 THEN g
    ELSE LET n == stmts[1]
         IN  IF "List" \in DOMAIN n
             THEN evaluate(g, evalLoop(n, Fields(VarsExpand(g.vars, n.List)))
                              \o Tail(stmts))
             ELSE IF "Branches" \in DOMAIN n
             THEN evaluate(g, evalConditional(g.vars, n.Branches, 1) \o Tail(stmts))
             ELSE CHOOSE r \in {evaluate(h, Tail(stmts)) : h \in {evalNode(g, n)}} :
                      TRUE

\* a validation that lets a config exclude only the configs named after it
ConfigError_InOrder(g, active) ==
    LET unknown == {i \in 1..Len(active) : active[i] \notin DOMAIN g.configs}
        clash == {p \in (1..Len(active)) \X (1..Len(active)) :
                    /\ p[1] < p[2]
                    /\ \E e \in 1..Len(g.configs[active[p[1]]].Excludes) :
                          g.configs[active[p[1]]].Excludes[e] = active[p[2]]}
    IN  IF unknown # {}
        THEN ErrUnknownConfig(active[CHOOSE i \in unknown : \A j \in unknown : i <= j])
        ELSE IF clash # {}
        THEN LET p == CHOOSE q \in clash : TRUE
             IN  ErrExcludes(active[p[1]], active[p[2]])
        ELSE Nil

\* the first error of the validation of applyConfigs, Nil if there is none
ConfigError(g, active) ==
    LET unknown == {i \in 1..Len(active) : active[i] \notin DOMAIN g.configs}
        clash == {p \in (1..Len(active)) \X (1..Len(active)) :
                    \E e \in 1..Len(g.configs[active[p[1]]].Excludes) :
                        g.configs[active[p[1]]].Excludes[e] = active[p[2]]}
    IN  IF unknown # {}
        THEN ErrUnknownConfig(active[CHOOSE i \in unknown : \A j \in unknown : i <= j])
        ELSE IF clash # {}
        THEN LET p == CHOOSE q \in clash :
                        \A o \in clash : q[1] < o[1] \/ (q[1] = o[1] /\ q[2] <= o[2])
             IN  ErrExcludes(active[p[1]], active[p[2]])
        ELSE Nil

\* "for _, va := range cfg.Vars" of applyConfigs, from assignment i on
RECURSIVE applyConfigVars(_, _, _)
applyConfigVars(vars, vas, i) ==
    IF i > Len(vas) THEN vars
    ELSE applyConfigVars(Assign(vars, vas[i].Op, vas[i].Name,
                                VarsExpand(vars, vas[i].Value)),
                         vas, i + 1)

\* the overrides of the last active config first
RECURSIVE applyOverrides_Reversed(_, _, _, _)
applyOverrides_Reversed(vars, configs, active, i) ==
    IF i > Len(active) THEN vars
    ELSE applyConfigVars(applyOverrides_Reversed(vars, configs, active, i + 1),
                         configs[active[i]].Vars, 1)

\* "Apply config variable overrides in CLI order", from config i on
RECURSIVE applyOverrides(_, _, _, _)
applyOverrides(vars, configs, active, i) ==
    IF i > Len(active) THEN vars
    ELSE applyOverrides(applyConfigVars(vars, configs[active[i]].Vars, 1),
                        configs, active, i + 1)

\* Graph.applyConfigs
applyConfigs(g, active) ==
    LET err == ConfigError(g, active)
        v == applyOverrides(g.vars, g.configs, active, 1)
        builddir == <<"b", "u", "i", "l", "d", "d", "i", "r">>
        base == VarsGet(v, builddir)
    IN  IF err # Nil THEN [g EXCEPT !.err = err]
        ELSE [g EXCEPT !.vars =
                 IF base # << >>
                 THEN VarsSet(v, builddir, base \o <<"-">> \o Join(active, <<"-">>))
                 ELSE v]

\* "for _, raw := range saved { g.addRule(raw.rule) }" of reExpandRules
RECURSIVE reAdd(_, _, _)
reAdd(g, saved, i) ==
    IF i > Len(saved) THEN g
    ELSE CHOOSE r \in {reAdd(h, saved, i + 1) :
                          h \in {addRule(g, g.vars, saved[i].rule)}} : TRUE

\* Graph.reExpandRules
reExpandRules(g) ==
    reAdd([g EXCEPT !.rules = << >>, !.patterns = << >>, !.rawRules = << >>],
          g.rawRules, 1)

\* BuildGraph
BuildGraph(file, vars, activeConfigs) ==
    CHOOSE r \in
        {IF Len(activeConfigs) = 0 THEN g
         ELSE CHOOSE a \in {IF applied.err # Nil THEN applied
                             ELSE reExpandRules(applied) :
                                applied \in {applyConfigs(g, activeConfigs)}} : TRUE :
            g \in {evaluate([EmptyGraph EXCEPT !.vars = vars], file)}} : TRUE

(***************************************************************************)
(* Resolver.                                                               *)
(***************************************************************************)
NoRule ==
    [target |-> << >>, targets |-> << >>, prereqs |-> << >>,
     orderOnlyPrereqs |-> << >>, recipe |-> << >>, isTask |-> FALSE,
     keep |-> FALSE, fingerprint |-> << >>, stem |-> << >>]

\* "for k, v := range captures { s = strings.ReplaceAll(s, "{"+k+"}", v) }"
RECURSIVE ReplaceCaptures(_, _, _)
ReplaceCaptures(s, captures, names) ==
    IF names = {} THEN s
    ELSE LET k == CHOOSE n \in names : TRUE
         IN  ReplaceCaptures(ReplaceAll(s, <<"{">> \o k \o <<"}">>, captures[k]),
                             captures, names \ {k})

\* index of the first target pattern of pr that matches target, 0 if none
FirstMatch(pr, target) ==
    LET hits == {i \in 1..Len(pr.targetPatterns) :
                    Match(pr.targetPatterns[i], target).ok}
    IN  IF hits = {} THEN 0
        ELSE CHOOSE i \in hits : \A j \in hits : i <= j

\* the targets of the rule that the first matching pattern rule gives
MergedTargets(pr, captures) ==
    [i \in 1..Len(pr.targetPatterns) |-> PatternExpand(pr.targetPatterns[i], captures)]

\* a resolver that lets a later recipe replace an earlier one
Ambiguous_Never(recipeCount) == FALSE

\* "if recipeCount > 1": a second matching pattern rule with a recipe
Ambiguous(recipeCount) == recipeCount > 1

\* the loop over g.patterns of Graph.Resolve, from pattern rule k on;
\* merged = NoRule with has = FALSE stands for the nil pointer
RECURSIVE ResolvePatterns(_, _, _, _, _, _)
ResolvePatterns(g, target, k, merged, has, recipeCount) ==
    IF k > Len(g.patterns) THEN [err |-> Nil, has |-> has, rule |-> merged]
    ELSE
    LET pr == g.patterns[k]
        m == FirstMatch(pr, target)
    IN  IF m = 0
        THEN ResolvePatterns(g, target, k + 1, merged, has, recipeCount)
        ELSE
        LET tp == pr.targetPatterns[m]
            captures == Match(tp, target).captures
            prereqs == [i \in 1..Len(pr.prereqPatterns) |->
                           PatternExpand(pr.prereqPatterns[i], captures)]
            orderOnly == [i \in 1..Len(pr.orderOnlyPrereqPatterns) |->
                             PatternExpand(pr.orderOnlyPrereqPatterns[i], captures)]
            targets == MergedTargets(pr, captures)
            merged1 ==
                IF ~has
                THEN [NoRule EXCEPT !.target = targets[1],
                                    !.targets = targets,
                                    !.prereqs = prereqs,
                                    !.orderOnlyPrereqs = orderOnly]
                ELSE [merged EXCEPT !.prereqs = @ \o prereqs,
                                    !.orderOnlyPrereqs = @ \o orderOnly]
        IN  IF Len(pr.recipe) > 0
            THEN IF Ambiguous(recipeCount + 1)
                 THEN [err |-> ErrAmbiguous(target), has |-> FALSE, rule |-> NoRule]
                 ELSE ResolvePatterns(g, target, k + 1,
                        [merged1 EXCEPT
                            !.recipe = [i \in 1..Len(pr.recipe) |->
                                ReplaceCaptures(pr.recipe[i], captures, DOMAIN captures)],
                            !.keep = pr.keep,
                            !.fingerprint =
                                ReplaceCaptures(pr.fingerprint, captures, DOMAIN captures),
                            !.stem = IF Len(tp.Captures) > 0
                                     THEN captures[tp.Captures[1]] ELSE << >>],
                        TRUE, recipeCount + 1)
            ELSE ResolvePatterns(g, target, k + 1, merged1, TRUE, recipeCount)

\* fileExists
fileExists(fs, path) == path \in DOMAIN fs

\* a resolver that consults the pattern rules before the explicit ones
Resolve_PatternsFirst(g, fs, target) ==
    LET explicit == {i \in 1..Len(g.rules) : target \in Range(g.rules[i].targets)}
        pat == ResolvePatterns(g, target, 1, NoRule, FALSE, 0)
    IN  IF pat.err # Nil THEN [err |-> pat.err, rule |-> NoRule]
        ELSE IF pat.has THEN [err |-> Nil, rule |-> pat.rule]
        ELSE IF explicit # {}
        THEN [err |-> Nil,
              rule |-> g.rules[CHOOSE i \in explicit : \A j \in explicit : i <= j]]
        ELSE IF fileExists(fs, target)
        THEN [err |-> Nil,
              rule |-> [NoRule EXCEPT !.target = target, !.targets = <<target>>]]
        ELSE [err |-> ErrNoRule(target), rule |-> NoRule]

\* Graph.Resolve: [err, rule]
Resolve(g, fs, target) ==
    LET explicit == {i \in 1..Len(g.rules) : target \in Range(g.rules[i].targets)}
        pat == ResolvePatterns(g, target, 1, NoRule, FALSE, 0)
    IN  IF explicit # {}
        THEN [err |-> Nil,
              rule |-> g.rules[CHOOSE i \in explicit : \A j \in explicit : i <= j]]
        ELSE IF pat.err # Nil THEN [err |-> pat.err, rule |-> NoRule]
        ELSE IF pat.has THEN [err |-> Nil, rule |-> pat.rule]
        ELSE IF fileExists(fs, target)
        THEN [err |-> Nil,
              rule |-> [NoRule EXCEPT !.target = target, !.targets = <<target>>]]
        ELSE [err |-> ErrNoRule(target), rule |-> NoRule]
(***************************************************************************)
(* File system, hashes, hash cache.  A file is [content, meta]; meta       *)
(* stands for the pair (mtime, size) that os.Stat reports.  A path outside *)
(* DOMAIN fs does not exist.                                               *)
(***************************************************************************)
NoFiles == [p \in {} |-> [content |-> 0, meta |-> <<0, 0, 0>>]]

\* f with key k set to v (Go: m[k] = v)
MapSet(f, k, v) == [x \in DOMAIN f \cup {k} |-> IF x = k THEN v ELSE f[x]]

\* f without the keys in ks (Go: delete(m, k), os.Remove)
MapDel(f, ks) == [x \in DOMAIN f \ ks |-> f[x]]

\* Go's "" where a hash is expected (a missing map entry, an unset field)
EmptyHash == [of |-> "", n |-> 0, s |-> << >>]

\* SHA-256 is modelled as an injective function of what is hashed
\* hashFile: the hash of a file's content
hashFile(fs, path) == [of |-> "bytes", n |-> fs[path].content, s |-> << >>]

\* hashString
hashString(text) == [of |-> "string", n |-> 0, s |-> text]

NoCache == [p \in {} |-> [meta |-> <<0, 0, 0>>, hash |-> EmptyHash]]

\* HashCache.Hash: [err, h, cache]; err is TRUE when os.Stat fails
HashCacheHash(cache, fs, path) ==
    IF path \notin DOMAIN fs
    THEN [err |-> TRUE, h |-> EmptyHash, cache |-> cache]
    ELSE IF path \in DOMAIN cache /\ cache[path].meta = fs[path].meta
    THEN [err |-> FALSE, h |-> cache[path].hash, cache |-> cache]
    ELSE [err |-> FALSE, h |-> hashFile(fs, path),
          cache |-> MapSet(cache, path,
                           [meta |-> fs[path].meta, hash |-> hashFile(fs, path)])]

\* runFingerprint: sh is the outcome of running the command now,
\* [ok, out]; the result is [err, h]
runFingerprint(sh, command) ==
    IF sh.ok THEN [err |-> FALSE, h |-> hashString(sh.out)]
    ELSE [err |-> TRUE, h |-> EmptyHash]

(***************************************************************************)
(* Build database.  Targets maps a target name to its TargetState.         *)
(***************************************************************************)
NoTargets ==
    [t \in {} |-> [RecipeHash |-> EmptyHash, InputHashes |-> << >>,
                   OutputHash |-> EmptyHash, FingerprintHash |-> EmptyHash,
                   Prereqs |-> << >>]]

\* ts.InputHashes[p]
InputHashOf(ts, p) ==
    IF p \in DOMAIN ts.InputHashes THEN ts.InputHashes[p] ELSE EmptyHash

\* an input hash loop that passes over a prerequisite it cannot hash
RECURSIVE StalePrereqs_SkipErr(_, _, _, _, _)
StalePrereqs_SkipErr(ts, prereqs, j, fs, cache) ==
    IF j > Len(prereqs) THEN [stale |-> FALSE, cache |-> cache]
    ELSE LET r == HashCacheHash(cache, fs, prereqs[j])
         IN  IF ~r.err /\ InputHashOf(ts, prereqs[j]) # r.h
             THEN [stale |-> TRUE, cache |-> r.cache]
             ELSE StalePrereqs_SkipErr(ts, prereqs, j + 1, fs, r.cache)

\* the loop "for _, p := range prereqs" of IsStale from prereq j on:
\* [stale, cache]
RECURSIVE StalePrereqs(_, _, _, _, _)
StalePrereqs(ts, prereqs, j, fs, cache) ==
    IF j > Len(prereqs) THEN [stale |-> FALSE, cache |-> cache]
    ELSE LET r == HashCacheHash(cache, fs, prereqs[j])
         IN  IF r.err THEN [stale |-> TRUE, cache |-> r.cache]
             ELSE IF InputHashOf(ts, prereqs[j]) # r.h
             THEN [stale |-> TRUE, cache |-> r.cache]
             ELSE StalePrereqs(ts, prereqs, j + 1, fs, r.cache)

\* the loop "for i, ts := range snapshots" of IsStale from target i on
RECURSIVE StaleTargets(_, _, _, _, _, _, _, _, _)
StaleTargets(Targets, targets, i, prereqs, recipeText, fingerprint, fs, sh, cache) ==
    IF i > Len(targets) THEN [stale |-> FALSE, cache |-> cache]
    ELSE IF targets[i] \notin DOMAIN Targets THEN [stale |-> TRUE, cache |-> cache]
    ELSE
    LET ts == Targets[targets[i]]
    IN  IF ts.RecipeHash # hashString(recipeText)
        THEN [stale |-> TRUE, cache |-> cache]
        ELSE IF fingerprint # << >>
        THEN LET fph == runFingerprint(sh, fingerprint)
             IN  IF fph.err \/ ts.FingerprintHash # fph.h
                 THEN [stale |-> TRUE, cache |-> cache]
                 ELSE StaleTargets(Targets, targets, i + 1, prereqs, recipeText,
                                   fingerprint, fs, sh, cache)
        ELSE IF targets[i] \notin DOMAIN fs
        THEN [stale |-> TRUE, cache |-> cache]
        ELSE IF ~stringSliceEqual(SortStrings(prereqs), SortStrings(ts.Prereqs))
        THEN [stale |-> TRUE, cache |-> cache]
        ELSE LET r == StalePrereqs(ts, prereqs, 1, fs, cache)
             IN  IF r.stale THEN r
                 ELSE StaleTargets(Targets, targets, i + 1, prereqs, recipeText,
                                   fingerprint, fs, sh, r.cache)

\* an IsStale that makes the checks of file mode whatever the fingerprint
IsStale_FileMode(Targets, targets, prereqs, recipeText, fingerprint, fs, sh, cache) ==
    StaleTargets(Targets, targets, 1, prereqs, recipeText, << >>, fs, sh, cache)

\* BuildState.IsStale: [stale, cache]
IsStale(Targets, targets, prereqs, recipeText, fingerprint, fs, sh, cache) ==
    StaleTargets(Targets, targets, 1, prereqs, recipeText, fingerprint, fs, sh, cache)

\* the loop "for _, p := range prereqs" of Record: [hashes, cache]
RECURSIVE RecordInputs(_, _, _, _, _)
RecordInputs(prereqs, j, fs, cache, hashes) ==
    IF j > Len(prereqs) THEN [hashes |-> hashes, cache |-> cache]
    ELSE LET r == HashCacheHash(cache, fs, prereqs[j])
         IN  RecordInputs(prereqs, j + 1, fs, r.cache,
                          IF r.err THEN hashes ELSE MapSet(hashes, prereqs[j], r.h))

\* the TargetState that Record builds for one target: [ts, cache]
RecordOne(target, prereqs, recipeText, fingerprint, fs, sh, cache) ==
    LET ins == RecordInputs(prereqs, 1, fs, cache, [p \in {} |-> EmptyHash])
        fph == runFingerprint(sh, fingerprint)
        outh == HashCacheHash(ins.cache, fs, target)
    IN  [ts |-> [RecipeHash |-> hashString(recipeText),
                 InputHashes |-> ins.hashes,
                 Prereqs |-> prereqs,
                 FingerprintHash |->
                     IF fingerprint # << >> /\ ~fph.err THEN fph.h ELSE EmptyHash,
                 OutputHash |->
                     IF fingerprint = << >> /\ ~outh.err THEN outh.h ELSE EmptyHash],
         cache |-> IF fingerprint = << >> THEN outh.cache ELSE ins.cache]

\* BuildState.Record: [Targets, cache]
RECURSIVE Record(_, _, _, _, _, _, _, _, _)
Record(Targets, targets, i, prereqs, recipeText, fingerprint, fs, sh, cache) ==
    IF i > Len(targets) THEN [Targets |-> Targets, cache |-> cache]
    ELSE LET one == RecordOne(targets[i], prereqs, recipeText, fingerprint,
                              fs, sh, cache)
         IN  Record(MapSet(Targets, targets[i], one.ts), targets, i + 1, prereqs,
                    recipeText, fingerprint, fs, sh, one.cache)

\* BuildState.GetTarget lookups of expandRecipe: the prerequisites whose
\* hash differs from the recorded one, or all when target has no record
RECURSIVE changedPrereqs(_, _, _, _, _, _)
changedPrereqs(Targets, target, prereqs, j, fs, cache) ==
    IF j > Len(prereqs) THEN [changed |-> << >>, cache |-> cache]
    ELSE IF target \notin DOMAIN Targets
    THEN LET rest == changedPrereqs(Targets, target, prereqs, j + 1, fs, cache)
         IN  [changed |-> <<prereqs[j]>> \o rest.changed, cache |-> rest.cache]
    ELSE LET r == HashCacheHash(cache, fs, prereqs[j])
             rest == changedPrereqs(Targets, target, prereqs, j + 1, fs, r.cache)
         IN  IF r.err \/ InputHashOf(Targets[target], prereqs[j]) # r.h
             THEN [changed |-> <<prereqs[j]>> \o rest.changed, cache |-> rest.cache]
             ELSE rest

\* automatic variables computed from all prerequisites, order-only included
AutoVars_AllPrereqs(vars, rule) ==
    LET all == rule.prereqs \o rule.orderOnlyPrereqs
        v1 == VarsSet(vars, <<"t", "a", "r", "g", "e", "t">>, rule.target)
        v2 == IF Len(all) > 0
              THEN VarsSet(v1, <<"i", "n", "p", "u", "t">>, all[Len(all)])
              ELSE v1
    IN  VarsSet(v2, <<"i", "n", "p", "u", "t", "s">>, Join(all, <<" ">>))

\* the automatic variables that expandRecipe and expandFingerprint share
AutoVars(vars, rule) ==
    LET v1 == VarsSet(vars, <<"t", "a", "r", "g", "e", "t">>, rule.target)
        v2 == IF Len(rule.prereqs) > 0
              THEN VarsSet(v1, <<"i", "n", "p", "u", "t">>, rule.prereqs[1])
              ELSE v1
        v3 == VarsSet(v2, <<"i", "n", "p", "u", "t", "s">>, Join(rule.prereqs, <<" ">>))
    IN  IF rule.stem # << >> THEN VarsSet(v3, <<"s", "t", "e", "m">>, rule.stem)
        ELSE v3

\* the loop that strips the @ and - prefixes of a recipe line:
\* [l, ignoreErr]
RECURSIVE StripPrefixes(_, _)
StripPrefixes(l, ignoreErr) ==
    IF Len(l) > 0 /\ (l[1] = "@" \/ l[1] = "-")
    THEN StripPrefixes(Tail(l), ignoreErr \/ l[1] = "-")
    ELSE [l |-> l, ignoreErr |-> ignoreErr]

\* the variable store in which expandRecipe expands the recipe lines:
\* [vars, cache]
RecipeVars(vars, Targets, rule, fs, cache) ==
    LET ch == changedPrereqs(Targets, rule.target, rule.prereqs, 1, fs, cache)
    IN  [vars |-> VarsSet(AutoVars(vars, rule), <<"c", "h", "a", "n", "g", "e", "d">>,
                          Join(ch.changed, <<" ">>)),
         cache |-> ch.cache]

\* Executor.expandRecipe: [text, cache]
expandRecipe(vars, Targets, rule, fs, cache) ==
    LET ch == RecipeVars(vars, Targets, rule, fs, cache)
        v == ch.vars
        lines == [i \in 1..Len(rule.recipe) |->
                    LET sp == StripPrefixes(rule.recipe[i], FALSE)
                    IN  VarsExpand(v, sp.l)
                        \o (IF sp.ignoreErr THEN <<" ", "|", "|", " ", "t", "r", "u", "e">>
                            ELSE << >>)]
    IN  [text |-> Join(lines, <<"\n">>), cache |-> ch.cache]

\* Executor.expandFingerprint
expandFingerprint(vars, rule) ==
    IF rule.fingerprint = << >> THEN << >>
    ELSE VarsExpand(AutoVars(vars, rule), rule.fingerprint)
(***************************************************************************)
(* Buildfiles of the model.  Each is [rules, files, goals, noisy, flaky]:  *)
(* the Rule nodes that Parse yields, the source files present before the   *)
(* first invocation, the targets a caller may request, and what the shell  *)
(* does with the recipes: the streams that the recipe of a target prints   *)
(* to, and the targets whose recipe can exit non-zero.                     *)
(***************************************************************************)
Rule(targets, prereqs, orderOnly, recipe) ==
    [Targets |-> targets, Prereqs |-> prereqs, OrderOnlyPrereqs |-> orderOnly,
     Recipe |-> recipe, IsTask |-> FALSE, Keep |-> FALSE, Fingerprint |-> << >>]

\* no recipe prints anything
Quiet == [t \in {} |-> {}]

SourceFiles(paths) == [p \in paths |-> [content |-> 1, meta |-> <<0, 1, 0>>]]

\* "cat $inputs>$target"
CatRecipe == << <<"c", "a", "t", " ", "$", "i", "n", "p", "u", "t", "s", ">",
                  "$", "t", "a", "r", "g", "e", "t">> >>

\* "cc $input"
CcRecipe == << <<"c", "c", " ", "$", "i", "n", "p", "u", "t">> >>

\* "-cc $input": the shell runs "cc  || true", which cannot fail
TryRecipe == << <<"-", "c", "c", " ", "$", "i", "n", "p", "u", "t">> >>

\* "@echo $changed>$target"
ChangedRecipe == << <<"@", "e", "c", "h", "o", " ", "$", "c", "h", "a", "n", "g",
                      "e", "d", ">", "$", "t", "a", "r", "g", "e", "t">> >>

\* top: left right / left: src / right: src        (TestParallelDiamond)
Diamond ==
    [rules |-> << Rule(<< <<"t">> >>, << <<"l">>, <<"r">> >>, << >>, CatRecipe),
                  Rule(<< <<"l">> >>, << <<"s">> >>, << >>, CatRecipe),
                  Rule(<< <<"r">> >>, << <<"s">> >>, << >>, CatRecipe) >>,
     files |-> SourceFiles({<<"s">>}),
     goals |-> {<<"t">>},
     noisy |-> (<<"l">> :> {"stdout", "stderr"}) @@ (<<"r">> :> {"stderr"}),
     flaky |-> {<<"r">>}]

\* a: p o / o p: s | q / q [keep]:                 (TestParallelMultiOutput,
\*                                                  TestOrderOnlyNoRebuild)
MultiOutput ==
    [rules |-> << Rule(<< <<"a">> >>, << <<"p">>, <<"o">> >>, << >>, << >>),
                  Rule(<< <<"o">>, <<"p">> >>, << <<"s">> >>, << <<"q">> >>, CatRecipe),
                  [Rule(<< <<"q">> >>, << >>, << >>, CcRecipe) EXCEPT !.Keep = TRUE] >>,
     files |-> SourceFiles({<<"s">>}),
     goals |-> {<<"o">>, <<"p">>, <<"a">>},
     noisy |-> Quiet,
     flaky |-> {<<"q">>}]

\* t: m l / l: s, with no rule and no file for m    (TestParallelErrorPropagation)
MissingPrereq ==
    [rules |-> << Rule(<< <<"t">> >>, << <<"m">>, <<"l">> >>, << >>, CatRecipe),
                  Rule(<< <<"l">> >>, << <<"s">> >>, << >>, CatRecipe) >>,
     files |-> SourceFiles({<<"s">>}),
     goals |-> {<<"t">>},
     noisy |-> Quiet,
     flaky |-> {<<"l">>}]

\* all: x.o x.d / x.h: / {n}.o: {n}.h / {n}.o {n}.d: {n}.c
\*                                (TestPatternPrereqMerge, TestParseMultiOutput)
PatternMerge ==
    [rules |-> << Rule(<< <<"a", "l", "l">> >>,
                       << <<"x", ".", "o">>, <<"x", ".", "d">> >>, << >>, << >>),
                  Rule(<< <<"x", ".", "h">> >>, << >>, << >>, CcRecipe),
                  Rule(<< <<"{", "n", "}", ".", "o">> >>,
                       << <<"{", "n", "}", ".", "h">> >>, << >>, << >>),
                  Rule(<< <<"{", "n", "}", ".", "o">>, <<"{", "n", "}", ".", "d">> >>,
                       << <<"{", "n", "}", ".", "c">> >>, << >>, CcRecipe) >>,
     files |-> SourceFiles({<<"x", ".", "c">>}),
     goals |-> {<<"a", "l", "l">>},
     noisy |-> Quiet,
     flaky |-> {<<"x", ".", "h">>}]

\* !all: a b c, three independent recipes under a task
Independent ==
    [rules |-> << [Rule(<< <<"a", "l", "l">> >>, << <<"a">>, <<"b">>, <<"c">> >>,
                        << >>, CcRecipe) EXCEPT !.IsTask = TRUE],
                  Rule(<< <<"a">> >>, << >>, << >>, TryRecipe),
                  Rule(<< <<"b">> >>, << >>, << >>, TryRecipe),
                  Rule(<< <<"c">> >>, << >>, << >>, CcRecipe) >>,
     files |-> NoFiles,
     goals |-> {<<"a", "l", "l">>},
     noisy |-> Quiet,
     flaky |-> {<<"c">>}]

\* out: a b, recipe "@echo $changed>$target"        (TestChangedVariable)
Changed ==
    [rules |-> << Rule(<< <<"o", "u", "t">> >>, << <<"a">>, <<"b">> >>,
                       << >>, ChangedRecipe) >>,
     files |-> SourceFiles({<<"a">>, <<"b">>}),
     goals |-> {<<"o", "u", "t">>},
     noisy |-> Quiet,
     flaky |-> {<<"o", "u", "t">>}]

\* o: s b | d, recipe "cat $inputs>$target"         (TestOrderOnlyNoRebuild,
\*                                                  TestOrderOnlyInputsExclusion)
OrderOnly ==
    [rules |-> << Rule(<< <<"o">> >>, << <<"s">>, <<"b">> >>, << <<"d">> >>,
                       CatRecipe) >>,
     files |-> SourceFiles({<<"s">>, <<"b">>, <<"d">>}),
     goals |-> {<<"o">>},
     noisy |-> Quiet,
     flaky |-> {}]

\* i [fingerprint: id $target]: s | d               (TestFingerprintStaleness)
Fingerprinted ==
    [rules |-> << [Rule(<< <<"i">> >>, << <<"s">> >>, << <<"d">> >>, CatRecipe)
                     EXCEPT !.Fingerprint = <<"i", "d", " ", "$", "t", "a", "r",
                                              "g", "e", "t">>] >>,
     files |-> SourceFiles({<<"s">>, <<"d">>}),
     goals |-> {<<"i">>},
     noisy |-> (<<"i">> :> {"stdout"}),
     flaky |-> {}]

\* !{n}.t: with a recipe, x.t present                 (a pattern rule marked
\*                                                   as a task)
PatternTask ==
    [rules |-> << [Rule(<< <<"{", "n", "}", ".", "t">> >>, << >>, << >>, CcRecipe)
                     EXCEPT !.IsTask = TRUE] >>,
     files |-> SourceFiles({<<"x", ".", "t">>}),
     goals |-> {<<"x", ".", "t">>},
     noisy |-> Quiet,
     flaky |-> {<<"x", ".", "t">>}]

\* g/o: s, recipe "cat $inputs>$target": a target in a directory that does
\* not exist yet
Subdir ==
    [rules |-> << Rule(<< <<"g", "/", "o">> >>, << <<"s">> >>, << >>, CatRecipe) >>,
     files |-> SourceFiles({<<"s">>}),
     goals |-> {<<"g", "/", "o">>},
     noisy |-> Quiet,
     flaky |-> {}]

\* all: x.o nope / y.o: y.c / {n}.o [keep]: {n}.c / {n}.o: {n}.h | {n}.d /
\* z{m}.o: z{m}.s: an explicit rule next to pattern rules that match its
\* target, a merge, and two pattern rules with a recipe for za.o
\*                (TestPatternAmbiguousRecipeError, TestMultiOutputExplicitResolve)
Precedence ==
    [rules |-> << Rule(<< <<"a", "l", "l">> >>,
                       << <<"x", ".", "o">>, <<"n", "o", "p", "e">> >>, << >>, << >>),
                  Rule(<< <<"y", ".", "o">> >>, << <<"y", ".", "c">> >>, << >>,
                       CatRecipe),
                  [Rule(<< <<"{", "n", "}", ".", "o">> >>,
                        << <<"{", "n", "}", ".", "c">> >>, << >>, CcRecipe)
                      EXCEPT !.Keep = TRUE],
                  Rule(<< <<"{", "n", "}", ".", "o">> >>,
                       << <<"{", "n", "}", ".", "h">> >>,
                       << <<"{", "n", "}", ".", "d">> >>, << >>),
                  Rule(<< <<"z", "{", "m", "}", ".", "o">> >>,
                       << <<"z", "{", "m", "}", ".", "s">> >>, << >>, TryRecipe) >>,
     files |-> SourceFiles({<<"x", ".", "c">>, <<"y", ".", "c">>}),
     goals |-> {<<"y", ".", "o">>, <<"z", "a", ".", "o">>},
     noisy |-> Quiet,
     flaky |-> {}]

\* m = r / config g: m = d / $m: s / for x in a b: $x: s / if $m == r: k: s
\* else: j: s; built without a config, with the config g, and with a config
\* that is not defined        (TestConfigPatternRule, TestLoopRuleGeneration,
\*                             TestLoopConditional)
Configured ==
    [rules |-> << [Name |-> <<"m">>, Op |-> "=", Value |-> <<"r">>],
                  [Name |-> <<"g">>, Excludes |-> << >>, Requires |-> << >>,
                   Vars |-> << [Name |-> <<"m">>, Op |-> "=", Value |-> <<"d">>] >>],
                  Rule(<< <<"$", "m">> >>, << <<"s">> >>, << >>, CatRecipe),
                  [Var |-> <<"x">>, List |-> <<"a", " ", "b">>,
                   Body |-> << Rule(<< <<"$", "x">> >>, << <<"s">> >>, << >>, << >>) >>],
                  [Branches |-> <<
                      [Op |-> "if", Left |-> <<"$", "m">>, Cmp |-> "==",
                       Right |-> <<"r">>,
                       Body |-> << Rule(<< <<"k">> >>, << <<"s">> >>, << >>, << >>) >>],
                      [Op |-> "else", Left |-> << >>, Cmp |-> "", Right |-> << >>,
                       Body |-> << Rule(<< <<"j">> >>, << <<"s">> >>, << >>, << >>) >>]
                   >>] >>,
     files |-> SourceFiles({<<"s">>}),
     goals |-> {<<"r">>, <<"d">>},
     noisy |-> Quiet,
     flaky |-> {},
     configs |-> {<< >>, << <<"g">> >>, << <<"u">> >>}]

\* f = a / builddir = b / config p: f += c / config q: excludes r, f = d /
\* config r: f += e, builddir = z / o: s; built with every list of one or two
\* of the configs p, q, r and of a config u that is not defined
\*              (TestConfigComposition, TestConfigBuildDir,
\*               TestConfigExcludeError, TestConfigUnknownError)
Composed ==
    [rules |-> << [Name |-> <<"f">>, Op |-> "=", Value |-> <<"a">>],
                  [Name |-> <<"b", "u", "i", "l", "d", "d", "i", "r">>, Op |-> "=",
                   Value |-> <<"b">>],
                  [Name |-> <<"p">>, Excludes |-> << >>, Requires |-> << >>,
                   Vars |-> << [Name |-> <<"f">>, Op |-> "+=", Value |-> <<"c">>] >>],
                  [Name |-> <<"q">>, Excludes |-> << <<"r">> >>, Requires |-> << >>,
                   Vars |-> << [Name |-> <<"f">>, Op |-> "=", Value |-> <<"d">>] >>],
                  [Name |-> <<"r">>, Excludes |-> << >>, Requires |-> << >>,
                   Vars |-> << [Name |-> <<"f">>, Op |-> "+=", Value |-> <<"e">>],
                               [Name |-> <<"b", "u", "i", "l", "d", "d", "i", "r">>,
                                Op |-> "=", Value |-> <<"z">>] >>],
                  Rule(<< <<"o">> >>, << <<"s">> >>, << >>, CatRecipe) >>,
     files |-> SourceFiles({<<"s">>}),
     goals |-> {<<"o">>},
     noisy |-> Quiet,
     flaky |-> {},
     configs |-> LET names == {<<"p">>, <<"q">>, <<"r">>, <<"u">>}
                 IN  {<<a>> : a \in names}
                     \cup {ab \in names \X names : ab[1] # ab[2]}]

\* the lists of configs the command line may name for buildfile f
ConfigArgs(f) == IF "configs" \in DOMAIN f THEN f.configs ELSE {<< >>}

\* the buildfiles of the executor specification
ExecBuildfiles ==
    {Diamond, MultiOutput, MissingPrereq, PatternMerge, Independent, PatternTask,
     Subdir, Precedence, Configured, Composed}

\* the buildfiles of the staleness specification
StaleBuildfiles == {Changed, OrderOnly, Fingerprinted}

\* contents an edit may give a file
Contents == {1, 2}

\* the -j arguments of the model: auto, unlimited, serial, two workers
JobsArgs == {-1, 0, 1, 2}
(***************************************************************************)
(* State.                                                                  *)
(***************************************************************************)
VARIABLES
    cli,        \* the command line: [file, jobs, dryRun, force, verbose, configs]
    exe,        \* the Executor's immutable fields, set by NewExecutor
    fs,         \* the file system
    sh,         \* what the fingerprint command prints when run now
    state,      \* BuildState.Targets in memory
    saved,      \* the Targets of the state file
    cache,      \* HashCache.entries
    building,   \* Executor.building: target -> index into results
    results,    \* the buildResult objects: [done, err]
    calls,      \* the Build calls (goroutines) of this invocation
    semHeld,    \* number of tokens in Executor.sem
    out,        \* what has been written to the terminal
    rootCalls,  \* Build calls issued from outside so far
    invocation, \* number of the running invocation
    edits,      \* log of the edits made by the environment: [inv, path, from, to]
    ev,         \* main.run before the executor: [args, stmts, g, env]
    given,      \* the argument of a function that is applied on its own
    returned    \* what that function returned

\* the variables of a build
buildVars == <<cli, exe, fs, sh, state, saved, cache, building, results,
               calls, semHeld, out, rootCalls, invocation, edits>>

\* the variables of the functions studied outside a build
unitVars == <<ev, given, returned>>

vars == <<buildVars, unitVars>>

\* the value of a variable that a specification does not use
Unused == << >>

\* NewVars(): the variable store that main.run hands to BuildGraph
StoreVars == [n \in {} |-> << >>]

\* NewExecutor: jobs < 0 means runtime.NumCPU(); semCap = 0 is the nil
\* channel (unlimited)
NewExecutor(graph, verbose, force, dryRun, jobs) ==
    LET j == IF jobs < 0 THEN NumCPU ELSE jobs
    IN  [graph |-> graph, vars |-> graph.vars, verbose |-> verbose,
         force |-> force, dryRun |-> dryRun, jobs |-> j,
         semCap |-> IF j > 0 THEN j ELSE 0]

NoBuilding == [t \in {} |-> 0]

NewCall(target, parent, idx) ==
    [target |-> target, parent |-> parent, idx |-> idx, pc |-> "start",
     rule |-> NoRule, res |-> 0, err |-> Nil, recipeText |-> << >>,
     fingerprint |-> << >>, ran |-> FALSE, printed |-> FALSE,
     outBuf |-> << >>, errBuf |-> << >>, wrote |-> {}]

Calls == 1..Len(calls)

\* the goroutines that doBuild of call c launched
Children(c) == {k \in Calls : calls[k].parent = c}

\* allPrereqs of doBuild
allPrereqs(rule) == rule.prereqs \o rule.orderOnlyPrereqs

InitWith(files, jobs, flags) ==
    /\ \E f \in files, j \in jobs :
          \E active \in ConfigArgs(f) :
              cli = [file |-> f, jobs |-> j, dryRun |-> flags[1],
                     force |-> flags[2], verbose |-> flags[3], configs |-> active]
    /\ exe = NewExecutor(BuildGraph(cli.file.rules, StoreVars, cli.configs),
                         cli.verbose, cli.force, cli.dryRun, cli.jobs)
    /\ fs = cli.file.files
    /\ sh = [ok |-> TRUE, out |-> <<"1">>]
    /\ state = NoTargets
    /\ saved = NoTargets
    /\ cache = NoCache
    /\ building = NoBuilding
    /\ results = << >>
    /\ calls = << >>
    /\ semHeld = 0
    /\ out = << >>
    /\ rootCalls = 0
    /\ invocation = 1
    /\ edits = << >>
    /\ ev = Unused
    /\ given = Unused
    /\ returned = Unused

\* the flag combinations <<dryRun, force, verbose>> of the model
FlagSets == {<<FALSE, FALSE, FALSE>>, <<TRUE, FALSE, FALSE>>,
             <<FALSE, TRUE, FALSE>>, <<FALSE, FALSE, TRUE>>}

Init == \E flags \in FlagSets : InitWith(ExecBuildfiles, JobsArgs, flags)

(***************************************************************************)
(* Executor.                                                               *)
(***************************************************************************)
\* "res.err = err; close(res.done); return err" of Build for call c
Finish(cs, c, err) == [cs EXCEPT ![c].pc = "done", ![c].err = err]

Close_OnSuccess(rs, r, err) ==
    IF err = Nil THEN [rs EXCEPT ![r].done = TRUE, ![r].err = err] ELSE rs

Close(rs, r, err) == [rs EXCEPT ![r].done = TRUE, ![r].err = err]

\* the loop "for _, t := range buildTargets" of main.run: the next
\* exec.Build(t), once the one before has returned nil
RootBuild(t) ==
    /\ rootCalls < MaxRootCalls
    /\ exe.graph.err = Nil
    /\ \A c \in Calls : calls[c].pc = "done"
    /\ \A c \in Calls : calls[c].parent = 0 => calls[c].err = Nil
    /\ \A i \in 1..Len(edits) : edits[i].inv < invocation
    /\ t \in cli.file.goals
    /\ calls' = Append(calls, NewCall(t, 0, 0))
    /\ rootCalls' = rootCalls + 1
    /\ UNCHANGED <<unitVars, cli, exe, fs, sh, state, saved, cache, building,
                   results, semHeld, out, invocation, edits>>

\* Build up to e.mu.Unlock(): the registered check, Resolve and the
\* registration of every target of the rule under one buildResult; then the
\* "go func" loop of doBuild
BuildEnter(c) ==
    /\ calls[c].pc = "start"
    /\ \E r \in {Resolve(exe.graph, fs, calls[c].target)} :
       LET t == calls[c].target
           n == Len(results) + 1
           ps == allPrereqs(r.rule)
       IN  IF t \in DOMAIN building
           THEN /\ calls' = [calls EXCEPT ![c].pc = "waitdone",
                                          ![c].res = building[t]]
                /\ UNCHANGED <<building, results>>
           ELSE IF r.err # Nil
           THEN /\ calls' = Finish(calls, c, r.err)
                /\ UNCHANGED <<building, results>>
           ELSE /\ results' = Append(results, [done |-> FALSE, err |-> Nil])
                /\ building' = [x \in DOMAIN building \cup Range(r.rule.targets) |->
                                   IF x \in Range(r.rule.targets) THEN n
                                   ELSE building[x]]
                /\ calls' = [calls EXCEPT ![c].pc = "wgwait", ![c].rule = r.rule,
                                          ![c].res = n]
                            \o [i \in 1..Len(ps) |-> NewCall(ps[i], c, i)]
    /\ UNCHANGED <<unitVars, cli, exe, fs, sh, state, saved, cache, semHeld, out,
                   rootCalls, invocation, edits>>

\* a receive from res.done that does not block on an open channel
AwaitDone_NoWait(c) ==
    /\ calls[c].pc = "waitdone"
    /\ calls' = Finish(calls, c, results[calls[c].res].err)
    /\ UNCHANGED <<unitVars, cli, exe, fs, sh, state, saved, cache, building,
                   results, semHeld, out, rootCalls, invocation, edits>>

\* "<-res.done; return res.err" of a call that found its target registered
AwaitDone(c) ==
    /\ calls[c].pc = "waitdone"
    /\ results[calls[c].res].done
    /\ calls' = Finish(calls, c, results[calls[c].res].err)
    /\ UNCHANGED <<unitVars, cli, exe, fs, sh, state, saved, cache, building,
                   results, semHeld, out, rootCalls, invocation, edits>>

\* a doBuild that stops waiting at the first failed prerequisite
WaitGroupDone_FirstFailure(c) ==
    \/ \A k \in Children(c) : calls[k].pc = "done"
    \/ \E k \in Children(c) : calls[k].pc = "done" /\ calls[k].err # Nil

\* wg.Wait() returns: every launched goroutine has called wg.Done
WaitGroupDone(c) == \A k \in Children(c) : calls[k].pc = "done"

\* errs[i] of doBuild
ErrOf(c, i) == calls[CHOOSE k \in Children(c) : calls[k].idx = i].err

\* the index of the first non-nil entry of errs, 0 if all are nil
FirstError(c) ==
    LET bad == {i \in 1..Len(allPrereqs(calls[c].rule)) : ErrOf(c, i) # Nil}
    IN  IF bad = {} THEN 0 ELSE CHOOSE i \in bad : \A j \in bad : i <= j

\* handing allPrereqs to IsStale and Record
StalenessPrereqs_All(rule) == rule.prereqs \o rule.orderOnlyPrereqs

\* the prerequisites doBuild hands to IsStale and Record
StalenessPrereqs(rule) == rule.prereqs

\* "!rule.isTask && !e.force && !e.state.IsStale(...)" with the expansion
\* before it: [skip, text, fingerprint, cache]
StaleCheck(x, Targets, rule, files, shell, hc) ==
    LET er == expandRecipe(x.vars, Targets, rule, files, hc)
        fp == expandFingerprint(x.vars, rule)
        st == IsStale(Targets, rule.targets, StalenessPrereqs(rule), er.text, fp,
                      files, shell, er.cache)
    IN  IF rule.isTask \/ x.force
        THEN [skip |-> FALSE, text |-> er.text, fingerprint |-> fp, cache |-> er.cache]
        ELSE [skip |-> ~st.stale, text |-> er.text, fingerprint |-> fp,
              cache |-> st.cache]

\* doBuild from wg.Wait() to the semaphore: the error check, the recipe-less
\* return and the staleness check
AfterPrereqs(c) ==
    /\ calls[c].pc = "wgwait"
    /\ WaitGroupDone(c)
    /\ \E chk \in {StaleCheck(exe, state, calls[c].rule, fs, sh, cache)} :
       LET rule == calls[c].rule
           i == FirstError(c)
           upToDate == [call |-> c, kind |-> "up to date"]
       IN  IF i # 0
           THEN LET err == ErrBuilding(allPrereqs(rule)[i], calls[c].target, ErrOf(c, i))
                IN  /\ calls' = Finish(calls, c, err)
                    /\ results' = Close(results, calls[c].res, err)
                    /\ UNCHANGED <<cache, out>>
           ELSE IF Len(rule.recipe) = 0
           THEN /\ calls' = Finish(calls, c, Nil)
                /\ results' = Close(results, calls[c].res, Nil)
                /\ UNCHANGED <<cache, out>>
           ELSE IF chk.skip
           THEN /\ calls' = Finish(calls, c, Nil)
                /\ results' = Close(results, calls[c].res, Nil)
                /\ cache' = chk.cache
                /\ out' = IF exe.verbose THEN Append(out, upToDate) ELSE out
           ELSE /\ calls' = [calls EXCEPT ![c].pc = "acquire",
                                          ![c].recipeText = chk.text,
                                          ![c].fingerprint = chk.fingerprint]
                /\ cache' = chk.cache
                /\ UNCHANGED <<results, out>>
    /\ UNCHANGED <<unitVars, cli, exe, fs, sh, state, saved, building, semHeld,
                   rootCalls, invocation, edits>>

\* a semaphore that never blocks
SlotFree_Unbounded == TRUE

\* "e.sem <- struct{}{}" can proceed
SlotFree == exe.semCap = 0 \/ semHeld < exe.semCap

\* streaming whenever there is a semaphore, whatever its capacity
serial_AnyBudget(x) == x.semCap # 0

\* "serial := e.sem != nil && cap(e.sem) == 1"
serial(x) == x.semCap # 0 /\ x.semCap = 1

\* the banner of executeRecipe: "mk: building <target>" and, when verbose or
\* in a dry run, the lines of the expanded recipe
Banner(c) ==
    [call |-> c, kind |-> "banner",
     text |-> IF exe.verbose \/ exe.dryRun THEN calls[c].recipeText ELSE << >>]

\* filepath.Dir for a clean relative path
Dir(path) ==
    LET slashes == {i \in 1..Len(path) : path[i] = "/"}
        last == IF slashes = {} THEN 0
                ELSE CHOOSE i \in slashes : \A j \in slashes : j <= i
    IN  IF last = 0 THEN <<".">>
        ELSE IF last = 1 THEN <<"/">>
        ELSE Take(path, last - 1)

\* a directory as an entry of the file system
DirEntry == [content |-> 0, meta |-> <<0, 0, 0>>, dir |-> TRUE]

\* os.MkdirAll(dir): dir and its missing ancestors
RECURSIVE MkdirAll(_, _)
MkdirAll(files, dir) ==
    IF dir \in {<<".">>, <<"/">>, << >>} \/ dir \in DOMAIN files THEN files
    ELSE MapSet(MkdirAll(files, Dir(dir)), dir, DirEntry)

\* parent directories created whatever the mode of the executor
RECURSIVE MkdirTargets_Always(_, _, _, _)
MkdirTargets_Always(x, files, rule, i) ==
    IF rule.isTask \/ i > Len(rule.targets) THEN files
    ELSE MkdirTargets_Always(x, MkdirAll(files, Dir(rule.targets[i])), rule, i + 1)

\* "Auto-create parent directories for all targets" of executeRecipe, from
\* target i on
RECURSIVE MkdirTargets(_, _, _, _)
MkdirTargets(x, files, rule, i) ==
    IF rule.isTask \/ i > Len(rule.targets) THEN files
    ELSE LET dir == Dir(rule.targets[i])
         IN  MkdirTargets(x,
                 IF dir # <<".">> /\ dir # << >> /\ ~x.dryRun
                 THEN MkdirAll(files, dir) ELSE files,
                 rule, i + 1)

\* the semaphore acquisition and executeRecipe up to cmd.Run(): in a dry
\* run the banner is printed and the call returns; otherwise the shell starts
StartRecipe(c) ==
    /\ calls[c].pc = "acquire"
    /\ SlotFree
    /\ IF exe.dryRun
       THEN /\ calls' = Finish([calls EXCEPT ![c].printed = TRUE], c, Nil)
            /\ results' = Close(results, calls[c].res, Nil)
            /\ out' = Append(out, Banner(c))
            /\ UNCHANGED semHeld
       ELSE /\ calls' = [calls EXCEPT ![c].pc = "running", ![c].ran = TRUE,
                                      ![c].printed = serial(exe)]
            /\ out' = IF serial(exe) THEN Append(out, Banner(c)) ELSE out
            /\ semHeld' = IF exe.semCap # 0 THEN semHeld + 1 ELSE semHeld
            /\ UNCHANGED results
    /\ fs' = MkdirTargets(exe, fs, calls[c].rule, 1)
    /\ UNCHANGED <<unitVars, cli, exe, sh, state, saved, cache, building,
                   rootCalls, invocation, edits>>

\* the running shell writes to its stdout or stderr: straight to the
\* terminal in serial mode, into outBuf or errBuf otherwise
RecipeWrite(c, stream) ==
    /\ calls[c].pc = "running"
    /\ stream \notin calls[c].wrote
    /\ calls[c].rule.target \in DOMAIN cli.file.noisy
    /\ stream \in cli.file.noisy[calls[c].rule.target]
    /\ LET chunk == [call |-> c, kind |-> stream]
       IN  IF serial(exe)
           THEN /\ out' = Append(out, chunk)
                /\ calls' = [calls EXCEPT ![c].wrote = @ \cup {stream}]
           ELSE /\ calls' = [calls EXCEPT
                                ![c].wrote = @ \cup {stream},
                                ![c].outBuf = IF stream = "stdout"
                                              THEN Append(@, chunk) ELSE @,
                                ![c].errBuf = IF stream = "stderr"
                                              THEN Append(@, chunk) ELSE @]
                /\ UNCHANGED out
    /\ UNCHANGED <<unitVars, cli, exe, fs, sh, state, saved, cache, building,
                   results, semHeld, rootCalls, invocation, edits>>

\* sum of the contents of the existing files among paths
RECURSIVE SumContents(_, _)
SumContents(files, paths) ==
    IF Len(paths) = 0 THEN 0
    ELSE (IF paths[1] \in DOMAIN files THEN files[paths[1]].content ELSE 0)
         + SumContents(files, Tail(paths))

\* the files a recipe leaves behind.  Recipes are deterministic functions of
\* their inputs: a successful recipe of a file rule writes every target with
\* a content computed from the contents of the normal prerequisites; a
\* failing one may leave its first target half written (content 0).  Tasks
\* write no file.  A written file gets an (mtime, size) that no file of
\* another content or an earlier invocation has.
AfterShell(files, rule, ok, partial, inv) ==
    LET written == IF rule.isTask THEN {}
                   ELSE IF ok THEN Range(rule.targets)
                   ELSE IF partial THEN {rule.target} ELSE {}
        content == IF ok THEN 1 + SumContents(files, rule.prereqs) ELSE 0
    IN  [p \in DOMAIN files \cup written |->
            IF p \in written THEN [content |-> content, meta |-> <<inv, content, 0>>]
            ELSE files[p]]

\* a failure that removes no file
DeleteOnError_KeepAll(files, rule) == files

\* "if !rule.isTask && !rule.keep { os.Remove(t) for every target }"
DeleteOnError(files, rule) ==
    IF ~rule.isTask /\ ~rule.keep THEN MapDel(files, Range(rule.targets))
    ELSE files

\* executeRecipe from the return of cmd.Run() on, the release of the
\* semaphore slot and the end of Build
RecipeExit(c, ok, partial) ==
    /\ calls[c].pc = "running"
    /\ ~ok => calls[c].rule.target \in cli.file.flaky
    /\ partial => ~ok /\ calls[c].rule.keep
    /\ LET rule == calls[c].rule
           fs1 == AfterShell(fs, rule, ok, partial, invocation)
           rec == Record(state, rule.targets, 1, StalenessPrereqs(rule),
                         calls[c].recipeText, calls[c].fingerprint, fs1, sh, cache)
           err == IF ok THEN Nil ELSE ErrRecipe(rule.target)
       IN  /\ out' = IF serial(exe) THEN out
                     ELSE out \o <<Banner(c)>> \o calls[c].outBuf \o calls[c].errBuf
           /\ fs' = IF ok THEN fs1 ELSE DeleteOnError(fs1, rule)
           /\ state' = IF ok /\ ~rule.isTask THEN rec.Targets ELSE state
           /\ cache' = IF ok /\ ~rule.isTask THEN rec.cache ELSE cache
           /\ calls' = Finish([calls EXCEPT ![c].printed = TRUE], c, err)
           /\ results' = Close(results, calls[c].res, err)
    /\ semHeld' = IF exe.semCap # 0 THEN semHeld - 1 ELSE semHeld
    /\ UNCHANGED <<unitVars, cli, exe, sh, saved, building, rootCalls, invocation, edits>>

\* every Build call of the invocation has returned
Quiescent == rootCalls > 0 /\ \A c \in Calls : calls[c].pc = "done"

\* some call from outside returned an error
RootFailed == \E c \in Calls : calls[c].parent = 0 /\ calls[c].err # Nil

\* the end of main.run (state.Save unless dry run or error) and the start of
\* the next run of the same command line (LoadState, BuildGraph, NewExecutor)
NextInvocation ==
    /\ Quiescent
    /\ invocation < MaxInvocations
    /\ saved' = IF cli.dryRun \/ RootFailed THEN saved ELSE state
    /\ state' = saved'
    /\ exe' = NewExecutor(BuildGraph(cli.file.rules, StoreVars, cli.configs),
                          cli.verbose, cli.force, cli.dryRun, cli.jobs)
    /\ cache' = NoCache
    /\ building' = NoBuilding
    /\ results' = << >>
    /\ calls' = << >>
    /\ semHeld' = 0
    /\ out' = << >>
    /\ rootCalls' = 0
    /\ invocation' = invocation + 1
    /\ UNCHANGED <<unitVars, cli, fs, sh, edits>>

Next ==
    \/ \E t \in cli.file.goals : RootBuild(t)
    \/ \E c \in Calls : BuildEnter(c)
    \/ \E c \in Calls : AwaitDone(c)
    \/ \E c \in Calls : AfterPrereqs(c)
    \/ \E c \in Calls : StartRecipe(c)
    \/ \E c \in Calls, stream \in {"stdout", "stderr"} : RecipeWrite(c, stream)
    \/ \E c \in Calls, ok \in BOOLEAN, partial \in BOOLEAN : RecipeExit(c, ok, partial)
    \/ NextInvocation

Spec == Init /\ [][Next]_vars

(***************************************************************************)
(* The environment between builds: edits of files and a change of what the *)
(* fingerprint command prints, made while no build is running.             *)
(***************************************************************************)
\* the paths a buildfile names that are plain files an editor may touch
EditFile(p, content) ==
    /\ Quiescent
    /\ Len(edits) < MaxEdits
    /\ p \in DOMAIN fs
    /\ content # fs[p].content
    /\ fs' = [fs EXCEPT ![p] = [content |-> content,
                                meta |-> <<invocation, content, Len(edits) + 1>>]]
    /\ edits' = Append(edits, [inv |-> invocation, path |-> p,
                               from |-> fs[p].content, to |-> content])
    /\ UNCHANGED <<unitVars, cli, exe, sh, state, saved, cache, building, results, calls,
                   semHeld, out, rootCalls, invocation>>

\* the artifact behind the fingerprint command changes, or the command
\* starts to fail
EditShell(new) ==
    /\ Quiescent
    /\ Len(edits) < MaxEdits
    /\ \E i \in 1..Len(exe.graph.rules) : exe.graph.rules[i].fingerprint # << >>
    /\ new # sh
    /\ sh' = new
    /\ edits' = Append(edits, [inv |-> invocation, path |-> <<"$">>,
                               from |-> 0, to |-> 0])
    /\ UNCHANGED <<unitVars, cli, exe, fs, state, saved, cache, building, results, calls,
                   semHeld, out, rootCalls, invocation>>

ShellOutcomes == {[ok |-> TRUE, out |-> <<"1">>], [ok |-> TRUE, out |-> <<"2">>],
                  [ok |-> FALSE, out |-> << >>]}

\* the flag combinations of the staleness specification
StaleFlagSets == {<<FALSE, FALSE, FALSE>>, <<FALSE, TRUE, FALSE>>}

InitStale == \E flags \in StaleFlagSets : InitWith(StaleBuildfiles, {2}, flags)

NextStale ==
    \/ Next
    \/ \E p \in DOMAIN fs, content \in Contents : EditFile(p, content)
    \/ \E new \in ShellOutcomes : EditShell(new)

SpecStale == InitStale /\ [][NextStale]_vars

(***************************************************************************)
(* Properties of the executor (specification Spec).                        *)
(***************************************************************************)
\* the call resolved its target and went through doBuild
Builder(c) == calls[c].rule # NoRule

\* the call found its target registered and took the registered result
Waiter(c) == calls[c].res # 0 /\ calls[c].rule = NoRule

\* the calls that started a recipe shell producing target t
Producers(t) == {c \in Calls : calls[c].ran /\ t \in Range(calls[c].rule.targets)}

\* the calls whose recipe shell is running
Running == {c \in Calls : calls[c].pc = "running"}

\* the prerequisites, normal and order-only, that the graph gives target t
PrereqsOf(t) ==
    LET r == Resolve(exe.graph, fs, t)
    IN  IF r.err # Nil THEN << >> ELSE allPrereqs(r.rule)

\* some Build(p) has returned nil / an error
BuiltOK(p) ==
    \E k \in Calls : calls[k].target = p /\ calls[k].pc = "done" /\ calls[k].err = Nil

FailedBuild(p) ==
    \E k \in Calls : calls[k].target = p /\ calls[k].pc = "done" /\ calls[k].err # Nil

\* C1: within one Executor the recipe that produces a given target is
\* started at most once, whatever Build calls are made and however they
\* interleave, and a Build(t) that finds t registered returns, once that build
\* has finished, the result of the call that performed it.
C1_SingleFlight ==
    /\ \A c \in Calls : calls[c].ran =>
          \A t \in Range(calls[c].rule.targets) : Producers(t) = {c}
    /\ \A c \in Calls : Waiter(c) /\ calls[c].pc = "done" =>
          /\ results[calls[c].res].done
          /\ calls[c].err = results[calls[c].res].err
          /\ \E b \in Calls : /\ Builder(b)
                              /\ calls[b].res = calls[c].res
                              /\ calls[b].pc = "done"
                              /\ calls[b].err = calls[c].err

\* the started shells that execute the recipe of the multi-output rule call c
\* resolved: the same recipe, with an output of that rule among their targets
ExecutionsOf(c) ==
    {d \in Calls : /\ calls[d].ran
                   /\ calls[d].rule.recipe = calls[c].rule.recipe
                   /\ Range(calls[d].rule.targets) \cap Range(calls[c].rule.targets) # {}}

\* C2: a rule with several outputs executes its recipe once per invocation,
\* whichever of its outputs are requested, in whatever order and
\* interleaving, and every request for one of the outputs completes with the
\* result of that one execution.
C2_MultiOutputOnce ==
    \A c \in Calls :
        Len(calls[c].rule.targets) > 1 /\ Len(calls[c].rule.recipe) > 0 =>
            /\ Cardinality(ExecutionsOf(c)) <= 1
            /\ \A d \in Calls :
                  /\ calls[c].pc = "done"
                  /\ calls[d].pc = "done"
                  /\ calls[d].target \in Range(calls[c].rule.targets)
                  => calls[d].err = calls[c].err

\* C3: a recipe is started only after every normal and order-only
\* prerequisite of each target it produces has been built with success: no
\* recipe has started while such a prerequisite is unbuilt, in progress or
\* failed.
C3_PrereqsFirst ==
    \A c \in Calls : calls[c].ran =>
        \A t \in Range(calls[c].rule.targets) :
            \A p \in Range(PrereqsOf(t)) : BuiltOK(p)

\* C4: if a prerequisite of target T failed to build or to resolve, no recipe
\* producing T is run in the invocation, and a Build(T) that has returned
\* returned an error that names the prerequisite and T and wraps the error of
\* that prerequisite's build; as T is any target, the same holds for each
\* dependent.
C4_PrereqFailure ==
    \A c \in Calls :
        LET T == calls[c].target
            failed == {p \in Range(PrereqsOf(T)) : FailedBuild(p)}
        IN  failed # {} =>
              /\ Producers(T) = {}
              /\ calls[c].pc = "done" =>
                    /\ calls[c].err.kind = "building"
                    /\ calls[c].err.target = T
                    /\ calls[c].err.prereq \in failed
                    /\ \E k \in Calls : /\ calls[k].target = calls[c].err.prereq
                                        /\ calls[k].pc = "done"
                                        /\ calls[k].err = calls[c].err.cause

\* a started recipe is never cancelled: it runs until its shell exits, and
\* the result of its call is the exit of that shell
NotCancelled ==
    \A c \in Calls : calls[c].ran =>
        /\ calls[c].pc \in {"running", "done"}
        /\ calls[c].pc = "done" => calls[c].err \in {Nil, ErrRecipe(calls[c].rule.target)}

\* the caller of Build from outside starts no build after one returned an error
NoBuildAfterError ==
    \A k \in Calls : calls[k].parent = 0 /\ calls[k].err # Nil =>
        \A j \in Calls : j > k => calls[j].parent # 0

\* C5 (as stated): once a prerequisite of a target has failed, the build
\* function of the target returns without waiting for the other
\* prerequisites, so its return is enabled from then on; started recipes are
\* not cancelled; a caller that observed the error starts no further builds.
C5_ReturnsImmediately ==
    /\ \A c \in Calls :
          (/\ calls[c].pc = "wgwait"
           /\ \E k \in Children(c) : calls[k].pc = "done" /\ calls[k].err # Nil)
          => ENABLED AfterPrereqs(c)
    /\ NotCancelled
    /\ NoBuildAfterError

\* C5 (amended): the build function of a target returns only when all its
\* prerequisites have finished, and then with the error of the first failed
\* prerequisite in declaration order; started recipes are not cancelled; a
\* caller that observed the error starts no further builds.
C5_ReturnsAfterAll ==
    /\ \A c \in Calls : Builder(c) /\ calls[c].pc = "done" =>
          /\ \A k \in Children(c) : calls[k].pc = "done"
          /\ (\E k \in Children(c) : calls[k].err # Nil) =>
                /\ calls[c].err.kind = "building"
                /\ calls[c].err.target = calls[c].target
                /\ \E i \in 1..Len(allPrereqs(calls[c].rule)) :
                      /\ calls[c].err.prereq = allPrereqs(calls[c].rule)[i]
                      /\ calls[c].err.cause = ErrOf(c, i)
                      /\ ErrOf(c, i) # Nil
                      /\ \A j \in 1..(i - 1) : ErrOf(c, j) = Nil
    /\ NotCancelled
    /\ NoBuildAfterError

\* a build function returned the error of its first prerequisite after its
\* second prerequisite ran a recipe to the end
C5_Witness ==
    \E c \in Calls :
        /\ Builder(c)
        /\ calls[c].pc = "done"
        /\ calls[c].err.kind = "building"
        /\ \E k \in Children(c) : /\ calls[k].ran
                                  /\ calls[k].pc = "done"
                                  /\ calls[k].err = Nil
                                  /\ ErrOf(c, 1) # Nil
                                  /\ calls[k].idx > 1

ChunksOf(c) == {i \in 1..Len(out) : out[i].call = c}

\* what the recipe of call c has printed so far, banner first
BlockOf(c) == <<Banner(c)>> \o calls[c].outBuf \o calls[c].errBuf

\* the terminal shows the block of call c in one piece and nothing else of c
OneBlock(c) ==
    \E i \in 1..Len(out) :
        /\ i + Len(BlockOf(c)) - 1 <= Len(out)
        /\ SubSeq(out, i, i + Len(BlockOf(c)) - 1) = BlockOf(c)
        /\ ChunksOf(c) = i..(i + Len(BlockOf(c)) - 1)

\* C7: when the worker budget is not exactly one, a recipe's banner, stdout
\* and stderr reach the terminal only after the recipe has exited, and then
\* as one contiguous block, so that the outputs of two recipes never
\* interleave; when the budget is exactly one, nothing is buffered: the
\* banner and whatever the recipe has written are on the terminal while it
\* runs.
C7_OutputBlocks ==
    \A c \in Calls : calls[c].ran =>
        IF exe.jobs # 1
        THEN /\ calls[c].pc = "running" => ChunksOf(c) = {}
             /\ calls[c].pc = "done" =>
                    /\ OneBlock(c)
                    /\ Len(BlockOf(c)) = 1 + Cardinality(calls[c].wrote)
        ELSE /\ calls[c].outBuf = << >> /\ calls[c].errBuf = << >>
             /\ \E i \in ChunksOf(c) : out[i] = Banner(c)
             /\ \A stream \in calls[c].wrote :
                    \E i \in ChunksOf(c) : out[i].kind = stream

\* with a budget other than one, a recipe that wrote to both streams has been
\* flushed as a block while another recipe runs with output in its buffer
C7_Witness ==
    /\ exe.jobs # 1
    /\ \E c, d \in Calls :
          /\ calls[c].ran /\ calls[c].pc = "done" /\ Cardinality(calls[c].wrote) = 2
          /\ OneBlock(c)
          /\ calls[d].pc = "running" /\ calls[d].errBuf # << >>

(***************************************************************************)
(* Properties of the staleness check (specification SpecStale).            *)
(***************************************************************************)
\* the explicit rules of the graph that have a recipe
RecipeRules ==
    {exe.graph.rules[i] : i \in {j \in 1..Len(exe.graph.rules) :
                                    Len(exe.graph.rules[j].recipe) > 0}}

\* the staleness check of doBuild for rule, as a fresh Executor makes it on
\* the build database Targets, the files and the fingerprint output given:
\* IsStale with the recipe text and fingerprint command expanded just before
ExecutorIsStale(Targets, rule, files, shell) ==
    LET er == expandRecipe(exe.vars, Targets, rule, files, NoCache)
    IN  IsStale(Targets, rule.targets, StalenessPrereqs(rule), er.text,
                expandFingerprint(exe.vars, rule), files, shell, er.cache).stale

\* the recipe of rule ran with success in this invocation
BuiltRule(rule) ==
    \E c \in Calls : /\ calls[c].rule = rule
                     /\ calls[c].ran
                     /\ calls[c].pc = "done"
                     /\ calls[c].err = Nil

\* the edits made in invocation k, all at the end of it
EditsIn(k) == SelectSeq(edits, LAMBDA e : e.inv = k)

\* C8: for every rule with a recipe, whatever automatic variables the
\* recipe uses: right after a successful build of its targets the staleness
\* check of the executor says not stale; after the content of one normal
\* prerequisite was changed it says stale; after that change was reverted it
\* says not stale again.
C8_StaleRoundTrip ==
    Quiescent =>
        \A rule \in RecipeRules : BuiltRule(rule) =>
            LET E == EditsIn(invocation)
                stale == ExecutorIsStale(state, rule, fs, sh)
            IN  /\ Len(E) = 0 => ~stale
                /\ Len(E) = 1 /\ E[1].path \in Range(rule.prereqs) => stale
                /\ (/\ Len(E) = 2
                    /\ E[1].path \in Range(rule.prereqs)
                    /\ E[2].path = E[1].path
                    /\ E[2].to = E[1].from) => ~stale

\* the one edit between the last invocation and this one changed a target of
\* rule
TargetEditedBefore(rule) ==
    /\ invocation > 1
    /\ Len(EditsIn(invocation - 1)) = 1
    /\ EditsIn(invocation - 1)[1].path \in Range(rule.targets)

\* C9: the recorded hash of the target detects a change made to the target
\* outside the build: when, after a successful build, only the content of a
\* target file was changed, the staleness check says stale, and the next
\* invocation that builds the target runs the recipe again.
C9_OutputHashDetects ==
    /\ Quiescent =>
          \A rule \in RecipeRules :
              (/\ BuiltRule(rule)
               /\ rule.fingerprint = << >>
               /\ Len(EditsIn(invocation)) = 1
               /\ EditsIn(invocation)[1].path \in Range(rule.targets))
              => ExecutorIsStale(state, rule, fs, sh)
    /\ \A c \in Calls :
          (/\ Builder(c)
           /\ calls[c].pc = "done"
           /\ calls[c].err = Nil
           /\ Len(calls[c].rule.recipe) > 0
           /\ calls[c].rule.fingerprint = << >>
           /\ ~exe.dryRun
           /\ TargetEditedBefore(calls[c].rule))
          => calls[c].ran

\* the file systems that differ from fs in the order-only prerequisite o
\* only: o absent, or o with another content
AltFiles(o) ==
    {MapDel(fs, {o})}
    \cup {MapSet(fs, o, [content |-> k, meta |-> <<invocation, k, MaxEdits + 1>>]) :
            k \in Contents}

\* the build databases that differ from state in the record of o only: no
\* record, or the record a build of o would store now
AltRecords(o) ==
    {MapDel(state, {o}),
     MapSet(state, o, RecordOne(o, << >>, << >>, << >>, fs, sh, NoCache).ts)}

\* C10: order-only prerequisites do not contribute to staleness: situations
\* that differ only in the content, the presence or the record of an
\* order-only prerequisite of a rule give the same stale / not stale
\* decision for the rule; and no order-only prerequisite is in the recorded
\* prerequisite list or the input hashes of a target.
C10_OrderOnlyNeutral ==
    \A rule \in RecipeRules :
        \A o \in Range(rule.orderOnlyPrereqs) \ Range(rule.prereqs) :
            LET stale == ExecutorIsStale(state, rule, fs, sh) IN
            /\ \A files \in AltFiles(o) :
                  ExecutorIsStale(state, rule, files, sh) = stale
            /\ \A Targets \in AltRecords(o) :
                  ExecutorIsStale(Targets, rule, fs, sh) = stale
            /\ \A t \in Range(rule.targets) \cap DOMAIN state :
                  /\ o \notin Range(state[t].Prereqs)
                  /\ o \notin DOMAIN state[t].InputHashes

\* a target was built and recorded, its order-only prerequisite was edited
\* afterwards, and the rule is not stale
C10_Witness ==
    /\ Quiescent
    /\ \E rule \in RecipeRules :
          /\ BuiltRule(rule)
          /\ rule.target \in DOMAIN state
          /\ \E i \in 1..Len(EditsIn(invocation)) :
                EditsIn(invocation)[i].path
                    \in Range(rule.orderOnlyPrereqs) \ Range(rule.prereqs)
          /\ ~ExecutorIsStale(state, rule, fs, sh)

\* the rules a Build call has resolved, and the explicit rules with a recipe
KnownRules == RecipeRules \cup {calls[c].rule : c \in {k \in Calls : Builder(k)}}

\* the words of the value of an automatic variable in store v
WordsOf(v, name) == Fields(VarsGet(v, name))

\* C11: when the recipe and the fingerprint command of a rule are expanded,
\* $input is the first normal prerequisite, $inputs lists the normal
\* prerequisites in declared order and $changed lists normal prerequisites
\* only; a prerequisite that is order-only is in none of the three.
C11_AutoVarsNormalOnly ==
    \A rule \in KnownRules :
        LET rv == RecipeVars(exe.vars, state, rule, fs, NoCache).vars
            fv == AutoVars(exe.vars, rule)
            input == <<"i", "n", "p", "u", "t">>
            inputs == <<"i", "n", "p", "u", "t", "s">>
            changed == <<"c", "h", "a", "n", "g", "e", "d">>
        IN  /\ Len(rule.prereqs) > 0 =>
                  /\ VarsGet(rv, input) = rule.prereqs[1]
                  /\ VarsGet(fv, input) = rule.prereqs[1]
            /\ WordsOf(rv, inputs) = rule.prereqs
            /\ WordsOf(fv, inputs) = rule.prereqs
            /\ Range(WordsOf(rv, changed)) \subseteq Range(rule.prereqs)
            /\ \A o \in Range(rule.orderOnlyPrereqs) \ Range(rule.prereqs) :
                  \A name \in {input, inputs, changed} :
                      /\ o \notin Range(WordsOf(rv, name))
                      /\ o \notin Range(WordsOf(fv, name))

\* a recorded rule with two normal prerequisites and an order-only one,
\* after an edit of one normal prerequisite and of the order-only one:
\* $changed is the edited normal prerequisite alone
C11_Witness ==
    \E rule \in RecipeRules :
        /\ Len(rule.prereqs) = 2
        /\ rule.target \in DOMAIN state
        /\ \E o \in Range(rule.orderOnlyPrereqs) \ Range(rule.prereqs) :
              \E i \in 1..Len(edits) : edits[i].path = o
        /\ WordsOf(RecipeVars(exe.vars, state, rule, fs, NoCache).vars,
                   <<"c", "h", "a", "n", "g", "e", "d">>) = <<rule.prereqs[2]>>

\* the calls whose recipe shell ran and exited zero, for a rule that is not
\* a task
Recorded == {c \in Calls : /\ calls[c].ran
                           /\ calls[c].pc = "done"
                           /\ calls[c].err = Nil
                           /\ ~calls[c].rule.isTask}

\* no prerequisite of the rule was written or removed in this invocation
PrereqsUntouched(rule) ==
    \A p \in Range(allPrereqs(rule)) :
        p \in DOMAIN fs /\ fs[p].meta[1] < invocation

\* C12: after the recipe of a non-task rule succeeded (not a dry run) the
\* build state holds a record for every target of the rule's group, all with
\* the same recipe hash and prerequisite list; so the next invocation, with
\* the group recorded and nothing changed, finds it up to date and does not
\* run its recipe.
C12_GroupRecorded ==
    /\ \A c \in Recorded :
          \A t \in Range(calls[c].rule.targets) :
              /\ t \in DOMAIN state
              /\ \A u \in Range(calls[c].rule.targets) \cap DOMAIN state :
                    /\ state[u].RecipeHash = state[t].RecipeHash
                    /\ state[u].Prereqs = state[t].Prereqs
    /\ \A c \in Calls :
          (/\ invocation = 2
           /\ ~exe.force
           /\ Builder(c)
           /\ ~calls[c].rule.isTask
           /\ Range(calls[c].rule.targets) \subseteq DOMAIN saved
           /\ PrereqsUntouched(calls[c].rule))
          => ~calls[c].ran

\* C13: when the recipe shell of a rule exits non-zero, every target file of
\* the group is deleted, unless the rule is keep or a task, and then no file
\* is deleted; no build-state record is added or changed; and the build
\* returns an error that names the target and wraps the cause.
C13_RecipeFailure ==
    [][\A c \in Calls :
          (/\ calls[c].pc = "running"
           /\ calls'[c].pc = "done"
           /\ calls'[c].err # Nil)
          => LET rule == calls[c].rule
             IN  /\ IF ~rule.keep /\ ~rule.isTask
                    THEN /\ \A t \in Range(rule.targets) : t \notin DOMAIN fs'
                         /\ DOMAIN fs \ Range(rule.targets) \subseteq DOMAIN fs'
                    ELSE DOMAIN fs \subseteq DOMAIN fs'
                 /\ state' = state
                 /\ calls'[c].err = [kind |-> "recipe failed",
                                     target |-> rule.target,
                                     cause |-> ErrExit]]_vars

\* the recipe of a recorded target ran again and failed: the file that the
\* earlier invocation left is gone and the record is the saved one
C13_Witness ==
    \E c \in Calls :
        /\ calls[c].ran
        /\ calls[c].pc = "done"
        /\ calls[c].err = ErrRecipe(calls[c].rule.target)
        /\ ~calls[c].rule.keep
        /\ ~calls[c].rule.isTask
        /\ calls[c].rule.target \in DOMAIN saved
        /\ calls[c].rule.target \notin DOMAIN fs
        /\ state[calls[c].rule.target] = saved[calls[c].rule.target]

\* the rules of the buildfile marked with "!" that name target t, literally
\* or through a pattern
TaskRulesFor(t) ==
    {i \in 1..Len(cli.file.rules) :
        /\ "Targets" \in DOMAIN cli.file.rules[i]
        /\ cli.file.rules[i].IsTask
        /\ \E k \in 1..Len(cli.file.rules[i].Targets) :
              Match(ParsePattern(VarsExpand(StoreVars, cli.file.rules[i].Targets[k])),
                    t).ok}

\* C14: every rule marked "!", with a literal or a pattern target, resolves
\* to a task: its recipe runs in each invocation that requests it, without a
\* staleness check, nothing is recorded in the build state for its targets,
\* and its targets are never deleted when the recipe fails.
C14_TasksAlwaysRun ==
    \A c \in Calls :
        (Builder(c) /\ TaskRulesFor(calls[c].target) # {}) =>
            /\ calls[c].rule.isTask
            /\ (/\ calls[c].pc = "done"
                /\ calls[c].err = Nil
                /\ ~exe.dryRun) => calls[c].ran
            /\ Range(calls[c].rule.targets) \cap DOMAIN state = {}
            /\ Range(calls[c].rule.targets) \cap DOMAIN cli.file.files
                   \subseteq DOMAIN fs

\* C15: in a dry run no recipe shell starts, no parent directory is created,
\* no target is deleted, no build-state record changes and the state file is
\* not written; only the banner with the expanded recipe of each stale target
\* is printed.
C15_DryRunFrame ==
    exe.dryRun =>
        /\ \A c \in Calls : ~calls[c].ran /\ calls[c].pc # "running"
        /\ fs = cli.file.files
        /\ state = NoTargets
        /\ saved = NoTargets
        /\ \A i \in 1..Len(out) :
              /\ out[i].kind = "banner"
              /\ out[i].text = calls[out[i].call].recipeText

\* the second dry run of a buildfile whose target lies in a directory that
\* does not exist: the banner has been printed and the build has returned
C15_Witness ==
    /\ exe.dryRun
    /\ invocation = 2
    /\ \E c \in Calls :
          /\ calls[c].pc = "done"
          /\ calls[c].printed
          /\ Dir(calls[c].rule.target) # <<".">>
          /\ \E i \in 1..Len(out) : out[i] = Banner(c)

\* C16: in every invocation that is not a dry run the build state is written
\* to the state file exactly once, at the end of the invocation, whether the
\* build succeeded or failed with a build error, so that the records of
\* targets built before a failure persist.
C16_StateSaved ==
    [][/\ (invocation' # invocation /\ ~cli.dryRun) => saved' = state
       /\ invocation' = invocation => saved' = saved]_vars

\* the names Resolve is asked about: the goals, the targets of the Build
\* calls, the files, and every name an explicit rule mentions
ResolveNames ==
    cli.file.goals
    \cup DOMAIN fs
    \cup {calls[c].target : c \in Calls}
    \cup UNION {Range(exe.graph.rules[i].targets)
                \cup Range(exe.graph.rules[i].prereqs)
                \cup Range(exe.graph.rules[i].orderOnlyPrereqs) :
                    i \in 1..Len(exe.graph.rules)}

\* the explicit rules whose target group contains t
ExplicitFor(t) ==
    {i \in 1..Len(exe.graph.rules) : t \in Range(exe.graph.rules[i].targets)}

\* the pattern rules with a target pattern that matches t
MatchingPatterns(t) ==
    {k \in 1..Len(exe.graph.patterns) : FirstMatch(exe.graph.patterns[k], t) # 0}

CapturesOf(k, t) ==
    LET pr == exe.graph.patterns[k]
    IN  Match(pr.targetPatterns[FirstMatch(pr, t)], t).captures

\* the prerequisite patterns ps of a pattern rule, expanded for target t
ExpandedFor(k, t, ps) ==
    [i \in 1..Len(ps) |-> PatternExpand(ps[i], CapturesOf(k, t))]

\* the expanded normal (which = 1) or order-only (which = 2) prerequisites
\* of the pattern rules k..n that match t, in declaration order
RECURSIVE ConcatPrereqs(_, _, _)
ConcatPrereqs(t, k, which) ==
    IF k > Len(exe.graph.patterns) THEN << >>
    ELSE (IF FirstMatch(exe.graph.patterns[k], t) # 0
          THEN ExpandedFor(k, t, IF which = 1
                                 THEN exe.graph.patterns[k].prereqPatterns
                                 ELSE exe.graph.patterns[k].orderOnlyPrereqPatterns)
          ELSE << >>)
         \o ConcatPrereqs(t, k + 1, which)

\* the matching pattern rules that carry a recipe
RecipePatterns(t) ==
    {k \in MatchingPatterns(t) : Len(exe.graph.patterns[k].recipe) > 0}

C19_SameGroup ==
    \A t \in ResolveNames :
        LET r == Resolve(exe.graph, fs, t)
        IN  /\ \A i \in ExplicitFor(t) :
                  (/\ Len(exe.graph.rules[i].targets) > 1
                   /\ \A j \in ExplicitFor(t) : i <= j)
                  => /\ r.err = Nil
                     /\ r.rule.targets = exe.graph.rules[i].targets
                     /\ r.rule.target = exe.graph.rules[i].targets[1]
            /\ \A k \in RecipePatterns(t) :
                  (/\ ExplicitFor(t) = {}
                   /\ RecipePatterns(t) = {k}
                   /\ Len(exe.graph.patterns[k].targetPatterns) > 1)
                  => LET group == MergedTargets(exe.graph.patterns[k],
                                                CapturesOf(k, t))
                     IN  /\ r.err = Nil
                         /\ r.rule.targets = group
                         /\ r.rule.target = group[1]
                         /\ \A u \in Range(group) :
                               Resolve(exe.graph, fs, u).rule.targets = group

\* the variables that the active configs override: those their assignments
\* name, and builddir when applyConfigs derives it
OverrideNames ==
    UNION {{exe.graph.configs[cli.configs[i]].Vars[k].Name :
                k \in 1..Len(exe.graph.configs[cli.configs[i]].Vars)} :
            i \in 1..Len(cli.configs)}
    \cup (IF <<"b", "u", "i", "l", "d", "d", "i", "r">> \in DOMAIN exe.graph.vars
          THEN {<<"b", "u", "i", "l", "d", "d", "i", "r">>} ELSE {})

\* the statements stmts without the assignments to the variables in names,
\* in loop bodies and conditional branches too
RECURSIVE WithoutAssignments(_, _)
WithoutAssignments(stmts, names) ==
    IF Len(stmts) = 0 THEN << >>
    ELSE LET n == stmts[1]
         IN  (IF "Value" \in DOMAIN n
              THEN (IF n.Name \in names THEN << >> ELSE <<n>>)
              ELSE IF "List" \in DOMAIN n
              THEN <<[n EXCEPT !.Body = WithoutAssignments(n.Body, names)]>>
              ELSE IF "Branches" \in DOMAIN n
              THEN <<[n EXCEPT !.Branches =
                        [i \in 1..Len(n.Branches) |->
                            [n.Branches[i] EXCEPT
                                !.Body = WithoutAssignments(n.Branches[i].Body,
                                                            names)]]]>>
              ELSE <<n>>)
             \o WithoutAssignments(Tail(stmts), names)

\* the graph of a fresh evaluation of the whole buildfile in which the
\* overridden variables have, from the start and throughout, the values the
\* active configs give them
Reevaluated ==
    evaluate([EmptyGraph EXCEPT !.vars =
                 [n \in OverrideNames |-> VarsGet(exe.graph.vars, n)]],
             WithoutAssignments(cli.file.rules, OverrideNames))

\* C20: for every list of active configs, the rule registry that results
\* from evaluating the buildfile, applying the configs and re-expanding the
\* stored raw rules is the registry of an evaluation of the whole buildfile
\* with the overrides of the configs preset, for rules in loops and
\* conditionals as for plain rules.
C20_ReexpandIsReevaluate ==
    (Len(cli.configs) > 0 /\ exe.graph.err = Nil) =>
        /\ exe.graph.rules = Reevaluated.rules
        /\ exe.graph.patterns = Reevaluated.patterns

(***************************************************************************)
(* Properties of the configs (specification Spec).                         *)
(***************************************************************************)
\* the config definitions at the top level of the buildfile
ConfigDefs ==
    {cli.file.rules[i] : i \in {j \in 1..Len(cli.file.rules) :
                                    "Excludes" \in DOMAIN cli.file.rules[j]}}

\* the command line names a config that is not defined, or two configs one
\* of which excludes the other
BadConfigs ==
    \/ \E a \in Range(cli.configs) : \A d \in ConfigDefs : d.Name # a
    \/ \E d \in ConfigDefs :
          /\ d.Name \in Range(cli.configs)
          /\ \E e \in Range(d.Excludes) : e \in Range(cli.configs)

\* the graph of the buildfile evaluated with no active config
Evaluated == evaluate([EmptyGraph EXCEPT !.vars = StoreVars], cli.file.rules)

\* C21: when an active config is undefined, or excludes another active
\* config, whatever their order on the command line, BuildGraph fails; the
\* variables are those of the evaluated buildfile, without any override, and
\* no recipe runs: no Build call is made, nothing is printed, no file and
\* no record changes.
C21_ConfigValidation ==
    BadConfigs =>
        /\ exe.graph.err.kind \in {"unknown config", "config excludes"}
        /\ exe.graph.vars = Evaluated.vars
        /\ calls = << >>
        /\ out = << >>
        /\ fs = cli.file.files
        /\ state = NoTargets

\* BuildGraph has failed for a command line that names the excluding config
\* after the excluded one
C21_Witness ==
    /\ cli.configs = << <<"r">>, <<"q">> >>
    /\ BadConfigs
    /\ exe.graph.err = ErrExcludes(<<"q">>, <<"r">>)
    /\ exe.graph.vars = Evaluated.vars

\* the assignments of the active configs, in command-line order
ActiveAssignments ==
    Flatten([i \in 1..Len(cli.configs) |->
                (CHOOSE d \in ConfigDefs : d.Name = cli.configs[i]).Vars])

BuildDir == <<"b", "u", "i", "l", "d", "d", "i", "r">>

\* what the claim lets name hold once the overrides are applied: the value
\* of the last "=" among them (the value of the evaluated buildfile if there
\* is none) and, after a space each, the values of the "+=" that follow it
Overridden(name) ==
    LET as == SelectSeq(ActiveAssignments, LAMBDA a : a.Name = name)
        sets == {i \in 1..Len(as) : as[i].Op = "="}
        k == IF sets = {} THEN 0 ELSE CHOOSE i \in sets : \A j \in sets : j <= i
        start == IF k # 0 THEN <<as[k].Value>>
                 ELSE IF VarsGet(Evaluated.vars, name) # << >>
                 THEN <<VarsGet(Evaluated.vars, name)>>
                 ELSE << >>
    IN  Join(start \o [i \in 1..(Len(as) - k) |-> as[k + i].Value], <<" ">>)

\* C22: with active configs that pass the validation, every variable holds
\* the value of the evaluated buildfile with the overrides of the configs
\* applied in command-line order, "=" replacing and "+=" appending after a
\* space; a non-empty builddir is then followed by "-" and the names of the
\* active configs joined by "-".
C22_OverridesInOrder ==
    (Len(cli.configs) > 0 /\ ~BadConfigs) =>
        /\ exe.graph.err = Nil
        /\ DOMAIN exe.graph.vars
             = DOMAIN Evaluated.vars
               \cup {ActiveAssignments[i].Name : i \in 1..Len(ActiveAssignments)}
        /\ \A name \in DOMAIN exe.graph.vars \ {BuildDir} :
              VarsGet(exe.graph.vars, name) = Overridden(name)
        /\ VarsGet(exe.graph.vars, BuildDir)
             = IF Overridden(BuildDir) = << >> THEN << >>
               ELSE Overridden(BuildDir) \o <<"-">> \o Join(cli.configs, <<"-">>)

\* r then p: the "+=" of both accumulate in that order, and builddir, which
\* r sets, carries the names of both; a recipe has run with these variables
C22_Witness ==
    /\ cli.configs = << <<"r">>, <<"p">> >>
    /\ VarsGet(exe.graph.vars, <<"f">>) = <<"a", " ", "e", " ", "c">>
    /\ VarsGet(exe.graph.vars, BuildDir) = <<"z", "-", "r", "-", "p">>
    /\ \E c \in Calls : calls[c].ran /\ calls[c].pc = "done"

(***************************************************************************)
(* The variable store with lazy variables.  The store of the executor      *)
(* model above holds eager values only, which is all its buildfiles need;  *)
(* here a store is [vals, lazy] as in Vars, and Get and Expand return the  *)
(* store next to their result, because Get moves a lazy variable that it   *)
(* evaluates to vals.  No function is defined (funcs stays empty).         *)
(***************************************************************************)
NoVals == [n \in {} |-> << >>]

\* NewVars: the environment is imported into vals
NewVars(environ) == [vals |-> environ, lazy |-> NoVals]

\* a Set that leaves the lazy expression of the name in place
StoreSet_KeepLazy(v, name, value) ==
    [vals |-> MapSet(v.vals, name, value), lazy |-> v.lazy]

\* Vars.Set
StoreSet(v, name, value) ==
    [vals |-> MapSet(v.vals, name, value), lazy |-> MapDel(v.lazy, {name})]

\* Vars.SetLazy
StoreSetLazy(v, name, expr) ==
    [vals |-> MapDel(v.vals, {name}), lazy |-> MapSet(v.lazy, name, expr)]

\* an expansion that writes nothing
Written_Lost(text, e) == e

\* b.WriteString / b.WriteByte in front of the rest of an expansion
Written(text, e) == [out |-> text \o e.out, v |-> e.v]

\* Vars.Expand: [out, v].  As in VarsExpand the texts of the model have no
\* "$[", and no "." or ":" after a name.
RECURSIVE StoreExpand(_, _)

\* Vars.Get: [val, v]
StoreGet(v, name) ==
    IF name \in DOMAIN v.lazy
    THEN CHOOSE r \in {[val |-> e.out,
                       v |-> [vals |-> MapSet(e.v.vals, name, e.out),
                              lazy |-> MapDel(e.v.lazy, {name})]] :
                          e \in {StoreExpand(v, v.lazy[name])}} : TRUE
    ELSE [val |-> IF name \in DOMAIN v.vals THEN v.vals[name] ELSE << >>, v |-> v]

StoreExpand(v, s) ==
    IF Len(s) = 0 THEN [out |-> << >>, v |-> v]
    ELSE IF s[1] # "$" THEN Written(<<s[1]>>, StoreExpand(v, Tail(s)))
    ELSE LET r == Tail(s)
         IN  IF Len(r) = 0 THEN [out |-> <<"$">>, v |-> v]
             ELSE IF r[1] = "$" THEN Written(<<"$">>, StoreExpand(v, Tail(r)))
             ELSE IF r[1] = "{"
             THEN LET end == IndexByte(r, "}")
                  IN  IF end < 0
                      THEN Written(<<"$", "{">>, StoreExpand(v, Tail(r)))
                      ELSE CHOOSE x \in {Written(g.val, StoreExpand(g.v, Drop(r, end + 1))) :
                                           g \in {StoreGet(v, SubSeq(r, 2, end))}} : TRUE
             ELSE IF isIdentStart(r[1])
             THEN CHOOSE x \in {Written(g.val, StoreExpand(g.v, Drop(r, IdentRun(r, 0)))) :
                                  g \in {StoreGet(v, Take(r, IdentRun(r, 0)))}} : TRUE
             ELSE Written(<<"$">>, StoreExpand(v, r))

\* Vars.Append
StoreAppend(v, name, value) ==
    CHOOSE r \in {IF g.val # << >> THEN StoreSet(g.v, name, g.val \o <<" ">> \o value)
                  ELSE StoreSet(g.v, name, value) :
                     g \in {StoreGet(v, name)}} : TRUE

\* Vars.Environ: the strings "k=val" as a function from k to val
Environ(v) == v.vals

\* Vars.Clone: the maps are copied, so that the clone is a value of its own
StoreClone(v) == [vals |-> v.vals, lazy |-> v.lazy]

\* the orders in which a range over a map with the keys ks may produce them
RECURSIVE Orders(_)
Orders(ks) ==
    IF ks = {} THEN {<< >>}
    ELSE UNION {{<<k>> \o o : o \in Orders(ks \ {k})} : k \in ks}

\* "for k := range v.lazy { snap[k] = v.Get(k) }" of Snapshot, the keys
\* coming in the given order: a key that a Get has removed from lazy before
\* the range reached it is not produced
RECURSIVE SnapshotLazy(_, _, _)
SnapshotLazy(v, snap, order) ==
    IF Len(order) = 0 THEN [snap |-> snap, v |-> v]
    ELSE IF order[1] \notin DOMAIN v.lazy THEN SnapshotLazy(v, snap, Tail(order))
    ELSE CHOOSE r \in {SnapshotLazy(g.v, MapSet(snap, order[1], g.val), Tail(order)) :
                          g \in {StoreGet(v, order[1])}} : TRUE

\* Vars.Snapshot: the possible [snap, v], one for each order of the range
\* over lazy
Snapshots(v) == {SnapshotLazy(v, v.vals, order) : order \in Orders(DOMAIN v.lazy)}

ErrCannotOpen(path) == [kind |-> "cannot open", path |-> path]

\* the VarAssign case of evalNode on the store v
evalVarAssign(v, n) ==
    LET nm == StoreExpand(v, n.Name)
        val == IF n.Lazy THEN [out |-> n.Value, v |-> nm.v]
               ELSE StoreExpand(nm.v, n.Value)
    IN  IF n.Op = "="
        THEN IF n.Lazy THEN StoreSetLazy(val.v, nm.out, n.Value)
             ELSE StoreSet(val.v, nm.out, val.out)
        ELSE IF n.Op = "+="
        THEN LET again == StoreExpand(val.v, n.Value)
             IN  StoreAppend(again.v, nm.out, again.out)
        ELSE LET g == StoreGet(val.v, nm.out)
             IN  IF g.val = << >> THEN StoreSet(g.v, nm.out, val.out) ELSE g.v

\* the export loop of evalScopedInclude: alias.k is set in the parent for
\* each k of the child's snapshot that the parent's snapshot lacks or holds
\* with another value
RECURSIVE Export(_, _, _, _, _)
Export(parent, alias, parentSnapshot, childSnapshot, ks) ==
    IF ks = {} THEN parent
    ELSE LET k == CHOOSE x \in ks : TRUE
             rest == Export(parent, alias, parentSnapshot, childSnapshot, ks \ {k})
         IN  IF k \notin DOMAIN parentSnapshot \/ parentSnapshot[k] # childSnapshot[k]
             THEN StoreSet(rest, alias \o <<".">> \o k, childSnapshot[k])
             ELSE rest

\* filepath.Join of a scope prefix and a clean relative path
PathJoin(prefix, path) == prefix \o <<"/">> \o path

\* Graph.evaluate on g = [vars, scopePrefix, err] for the statements of this
\* section, VarAssign (Lazy) and Include (Alias), the files that an include
\* can open being files: the graphs that the evaluation may end with, one
\* for each way the ranges of Snapshot may go
RECURSIVE evaluateScoped(_, _, _)

\* Graph.evalScopedInclude
evalScopedInclude(g, path, alias, ast, files) ==
    UNION {UNION {{[vars |-> Export(ps.v, alias, ps.snap, cs.snap, DOMAIN cs.snap),
                    scopePrefix |-> g.scopePrefix,
                    err |-> child.err] : cs \in Snapshots(child.vars)} :
                     child \in evaluateScoped(
                                  [vars |-> StoreClone(g.vars),
                                   scopePrefix |-> IF Dir(path) = <<".">> THEN alias
                                                   ELSE Dir(path),
                                   err |-> Nil], ast, files)} :
              ps \in Snapshots(g.vars)}

\* Graph.evalInclude and Graph.doInclude for a path without "{"
evalInclude(g, inc, files) ==
    LET expanded == StoreExpand(g.vars, inc.Path)
        h == [g EXCEPT !.vars = expanded.v]
        path == IF g.scopePrefix # << >> THEN PathJoin(g.scopePrefix, expanded.out)
                ELSE expanded.out
    IN  IF path \notin DOMAIN files THEN {[h EXCEPT !.err = ErrCannotOpen(path)]}
        ELSE IF inc.Alias = << >> THEN evaluateScoped(h, files[path], files)
        ELSE evalScopedInclude(h, path, inc.Alias, files[path], files)

\* Graph.evalNode for the two kinds of statement
evalNodeScoped(g, n, files) ==
    IF "Alias" \in DOMAIN n THEN evalInclude(g, n, files)
    ELSE {[g EXCEPT !.vars = evalVarAssign(g.vars, n)]}

evaluateScoped(g, stmts, files) ==
    IF Len(stmts) = 0 THEN {g}
    ELSE UNION {IF h.err # Nil THEN {h} ELSE evaluateScoped(h, Tail(stmts), files) :
                   h \in evalNodeScoped(g, stmts[1], files)}

(***************************************************************************)
(* main.run before the executor, as far as the variables go: NewVars, the  *)
(* name=value arguments, the statements of the buildfile one after the     *)
(* other, and the environment that executeRecipe hands to the shell.       *)
(* given is [environ, args, file, files]: the inherited environment, the   *)
(* name=value arguments, the statements of the buildfile and the files an  *)
(* include can open.                                                       *)
(***************************************************************************)
VarAssign(name, op, value) == [Name |-> name, Op |-> op, Value |-> value, Lazy |-> FALSE]

LazyAssign(name, value) == [Name |-> name, Op |-> "=", Value |-> value, Lazy |-> TRUE]

Include(path, alias) == [Path |-> path, Alias |-> alias]

\* the files that the includes of the buildfiles below name
\*   c: v = $w          d: v = 1 / include nowhere / u = 2
IncludedFiles ==
    (<<"c">> :> << VarAssign(<<"v">>, "=", <<"$", "w">>) >>)
    @@ (<<"d">> :> << VarAssign(<<"v">>, "=", <<"1">>),
                      Include(<<"n">>, << >>),
                      VarAssign(<<"u">>, "=", <<"2">>) >>)

\* the buildfiles, as the statements Parse yields
VarFiles ==
    {<< VarAssign(<<"x">>, "=", <<"b">>) >>,
     << VarAssign(<<"x">>, "?=", <<"d">>) >>,
     << VarAssign(<<"x">>, "=", << >>), VarAssign(<<"x">>, "?=", <<"d">>) >>,
     << VarAssign(<<"x">>, "+=", <<"a">>) >>,
     << LazyAssign(<<"l">>, <<"$", "x">>) >>,
     << LazyAssign(<<"l">>, <<"$", "x">>), VarAssign(<<"y">>, "=", <<"$", "l">>) >>,
     << LazyAssign(<<"l">>, <<"$", "x">>), VarAssign(<<"l">>, "?=", <<"d">>) >>,
     << VarAssign(<<"w">>, "=", <<"1">>), Include(<<"c">>, <<"l">>) >>,
     << VarAssign(<<"w">>, "=", <<"1">>), Include(<<"c">>, <<"l">>),
        VarAssign(<<"w">>, "=", <<"2">>), Include(<<"c">>, <<"l">>) >>,
     << LazyAssign(<<"a">>, <<"$", "b">>), LazyAssign(<<"b">>, <<"1">>),
        Include(<<"c">>, <<"l">>) >>,
     << Include(<<"d">>, <<"l">>) >>,
     << Include(<<"c">>, << >>) >>}

\* the inherited environments: empty, x set, x set to the empty string
Environs == {NoVals, <<"x">> :> <<"e">>, <<"x">> :> << >>}

\* the name=value arguments: none, x=c, x= (the empty string)
VarArgs == {<< >>, << [name |-> <<"x">>, value |-> <<"c">>] >>,
            << [name |-> <<"x">>, value |-> << >>] >>}

InitVars ==
    /\ given \in [environ : Environs, args : VarArgs, file : VarFiles,
                  files : {IncludedFiles}]
    /\ ev = [args |-> given.args, stmts |-> given.file,
             g |-> [vars |-> NewVars(given.environ), scopePrefix |-> << >>,
                    err |-> Nil]]
    /\ returned = Unused
    /\ cli = Unused /\ exe = Unused /\ fs = Unused /\ sh = Unused
    /\ state = Unused /\ saved = Unused /\ cache = Unused
    /\ building = Unused /\ results = Unused /\ calls = Unused
    /\ semHeld = 0 /\ out = Unused /\ rootCalls = 0 /\ invocation = 1
    /\ edits = Unused

\* "vars.Set(name, value)" for the next name=value argument of main.run
ArgSet ==
    /\ Len(ev.args) > 0
    /\ ev' = [ev EXCEPT !.args = Tail(@),
                        !.g.vars = StoreSet(@, ev.args[1].name, ev.args[1].value)]
    /\ UNCHANGED <<buildVars, given, returned>>

\* evalNode for the next statement of the buildfile
EvalStmt ==
    /\ Len(ev.args) = 0
    /\ Len(ev.stmts) > 0
    /\ ev.g.err = Nil
    /\ \E h \in evalNodeScoped(ev.g, ev.stmts[1], given.files) :
          ev' = [ev EXCEPT !.stmts = Tail(@), !.g = h]
    /\ UNCHANGED <<buildVars, given, returned>>

\* "cmd.Env = e.vars.Environ()" of executeRecipe, once BuildGraph has
\* returned without an error; the recipe itself is expanded in a clone
RunRecipe ==
    /\ Len(ev.args) = 0
    /\ Len(ev.stmts) = 0
    /\ ev.g.err = Nil
    /\ returned = Unused
    /\ returned' = Environ(ev.g.vars)
    /\ UNCHANGED <<buildVars, ev, given>>

NextVars == ArgSet \/ EvalStmt \/ RunRecipe

SpecVars == InitVars /\ [][NextVars]_vars

(***************************************************************************)
(* Properties of the variable store (specification SpecVars).              *)
(***************************************************************************)
\* C23: once the buildfile is evaluated, and in the environment of a recipe,
\* a variable that the command line sets with name=value holds the value of
\* the command line, whatever the buildfile assigns to it and whatever the
\* inherited environment holds.
C23_CommandLineWins ==
    returned # Unused =>
        \A i \in 1..Len(given.args) :
            /\ StoreGet(ev.g.vars, given.args[i].name).val = given.args[i].value
            /\ given.args[i].name \in DOMAIN returned
            /\ returned[given.args[i].name] = given.args[i].value

\* a name has a definition in the store, eager or lazy
Defined(v, name) == name \in DOMAIN v.vals \cup DOMAIN v.lazy

\* the step of EvalStmt that evaluates a "name ?= value" statement
CondSetStep ==
    /\ Len(ev.args) = 0
    /\ Len(ev.stmts) > 0
    /\ "Op" \in DOMAIN ev.stmts[1]
    /\ ev.stmts[1].Op = "?="
    /\ ev'.stmts = Tail(ev.stmts)

\* C24: "name ?= value" sets the variable only if it is not already defined:
\* a name that has a definition from the environment, the command line or
\* an earlier assignment, whatever its value (the empty string included),
\* is left unchanged; otherwise it is set to the expanded value
C24_CondSetOnlyUndefined ==
    [][CondSetStep =>
          LET name == ev.stmts[1].Name
          IN  IF Defined(ev.g.vars, name)
              THEN StoreGet(ev'.g.vars, name).val = StoreGet(ev.g.vars, name).val
              ELSE StoreGet(ev'.g.vars, name).val
                      = StoreExpand(ev.g.vars, ev.stmts[1].Value).out]_vars

\* C26: when a recipe runs, every variable defined in the variable store,
\* eager or lazy, from the environment, the command line or the buildfile,
\* is in the environment of the recipe's process with its fully expanded
\* value
C26_AllVariablesExported ==
    returned # Unused =>
        \A name \in DOMAIN ev.g.vars.vals \cup DOMAIN ev.g.vars.lazy :
            /\ name \in DOMAIN returned
            /\ returned[name] = StoreGet(ev.g.vars, name).val

\* the value of every name that a store defines, eager or lazy
Values(v) == [name \in DOMAIN v.vals \cup DOMAIN v.lazy |-> StoreGet(v, name).val]

\* the step of EvalStmt that evaluates "include path as alias" for a file
\* that can be opened
ScopedIncludeStep ==
    /\ Len(ev.args) = 0
    /\ Len(ev.stmts) > 0
    /\ "Alias" \in DOMAIN ev.stmts[1]
    /\ ev.stmts[1].Alias # << >>
    /\ ev.stmts[1].Path \in DOMAIN given.files
    /\ ev'.stmts = Tail(ev.stmts)

\* the graphs that the evaluation of the included file may end with, begun
\* in a clone of the parent's variables
ChildGraphs ==
    evaluateScoped([vars |-> StoreClone(ev.g.vars),
                    scopePrefix |-> IF Dir(ev.stmts[1].Path) = <<".">>
                                    THEN ev.stmts[1].Alias
                                    ELSE Dir(ev.stmts[1].Path),
                    err |-> Nil],
                   given.files[ev.stmts[1].Path], given.files)

\* the names whose value in the child differs from, or is absent in, the
\* parent's values before the include
ChildSet(parent, child) ==
    {k \in DOMAIN child : k \notin DOMAIN parent \/ parent[k] # child[k]}

\* C25: "include path as alias" runs the included file against a clone of
\* the parent's variables: when it returns, with or without an error, the
\* scope prefix is the parent's again, every variable that existed in the
\* parent before the include keeps its previous value, and the parent gains
\* exactly the variables alias.name for each name whose value in the child
\* differs from, or is absent in, the parent's snapshot before the include
C25_ScopedIncludeFrame ==
    [][ScopedIncludeStep =>
          \E child \in ChildGraphs :
             LET alias == ev.stmts[1].Alias
                 before == Values(ev.g.vars)
                 after == Values(ev'.g.vars)
                 inChild == Values(child.vars)
             IN  /\ ev'.g.scopePrefix = ev.g.scopePrefix
                 /\ \A name \in DOMAIN before :
                       name \in DOMAIN after /\ after[name] = before[name]
                 /\ DOMAIN after \ DOMAIN before
                       = {alias \o <<".">> \o k : k \in ChildSet(before, inChild)}
                 /\ \A k \in ChildSet(before, inChild) :
                       after[alias \o <<".">> \o k] = inChild[k]]_vars

(***************************************************************************)
(* Vars.Expand applied on its own: given is [text, vars], a recipe line or *)
(* variable value and the store it is expanded in; returned is the         *)
(* expanded text.                                                          *)
(***************************************************************************)
MaxTextLen == 5

\* the characters of the texts: the sigil, the parentheses of a command
\* substitution and the name of a variable
ExpandChars == {"$", "(", ")", "x"}

ExpandTexts == UNION {[1..n -> ExpandChars] : n \in 0..MaxTextLen}

\* the stores: x undefined, x set to "v"
ExpandStores == {NewVars(NoVals), NewVars(<<"x">> :> <<"v">>)}

InitExpand ==
    /\ given \in [text : ExpandTexts, vars : ExpandStores]
    /\ returned = Unused
    /\ ev = Unused
    /\ cli = Unused /\ exe = Unused /\ fs = Unused /\ sh = Unused
    /\ state = Unused /\ saved = Unused /\ cache = Unused
    /\ building = Unused /\ results = Unused /\ calls = Unused
    /\ semHeld = 0 /\ out = Unused /\ rootCalls = 0 /\ invocation = 1
    /\ edits = Unused

\* "lines = append(lines, vars.Expand(l))" of expandRecipe
ExpandText ==
    /\ returned = Unused
    /\ returned' = StoreExpand(given.vars, given.text).out
    /\ UNCHANGED <<buildVars, ev, given>>

NextExpand == ExpandText

SpecExpand == InitExpand /\ [][NextExpand]_vars

(***************************************************************************)
(* Properties of the expansion (specification SpecExpand)                  *)
(***************************************************************************)
\* the number of consecutive "$" that end at position i of s
RECURSIVE DollarRun(_, _)
DollarRun(s, i) == IF i = 0 \/ s[i] # "$" THEN 0 ELSE 1 + DollarRun(s, i - 1)

\* the positions i of s where "$(" begins and the "$" is not the second of
\* a "$$"
Substitutions(s) ==
    {i \in 1..(Len(s) - 1) :
        s[i] = "$" /\ s[i + 1] = "(" /\ DollarRun(s, i - 1) % 2 = 0}

\* the position of the ")" that closes the "(" at position i of s, 0 if
\* there is none
RECURSIVE Closing(_, _, _)
Closing(s, k, depth) ==
    IF k > Len(s) THEN 0
    ELSE IF s[k] = "(" THEN Closing(s, k + 1, depth + 1)
    ELSE IF s[k] = ")" THEN IF depth = 1 THEN k ELSE Closing(s, k + 1, depth - 1)
    ELSE Closing(s, k + 1, depth)

Expanded(s) == StoreExpand(given.vars, s).out

MaxMtime == 2

CachePaths == {<<"a">>, <<"b">>}

\* the contents a file may have and their lengths: 1 and 2 are as long as
\* each other
CacheContents == {1, 2, 3}

Size(content) == IF content = 3 THEN 2 ELSE 1

InitCache ==
    /\ fs = [p \in CachePaths |-> [content |-> 1, meta |-> <<1, Size(1)>>]]
    /\ cache = NoCache
    /\ returned = Unused
    /\ ev = Unused /\ given = Unused
    /\ cli = Unused /\ exe = Unused /\ sh = Unused
    /\ state = Unused /\ saved = Unused
    /\ building = Unused /\ results = Unused /\ calls = Unused
    /\ semHeld = 0 /\ out = Unused /\ rootCalls = 0 /\ invocation = 1
    /\ edits = Unused

\* os.WriteFile by a recipe or an editor: the modification time is that of
\* the write, which the clock of the file system may or may not tell from
\* the time of the write before
WriteFile(p, content, mtime) ==
    /\ content # fs[p].content
    /\ mtime >= fs[p].meta[1]
    /\ fs' = [fs EXCEPT ![p] = [content |-> content, meta |-> <<mtime, Size(content)>>]]
    /\ UNCHANGED <<unitVars, cli, exe, sh, state, saved, cache, building, results,
                   calls, semHeld, out, rootCalls, invocation, edits>>

\* c.Hash(path)
CacheHash(p) ==
    /\ \E r \in {HashCacheHash(cache, fs, p)} :
          /\ cache' = r.cache
          /\ returned' = [path |-> p, h |-> r.h]
    /\ UNCHANGED <<ev, given, cli, exe, fs, sh, state, saved, building, results,
                   calls, semHeld, out, rootCalls, invocation, edits>>

NextCache ==
    \/ \E p \in CachePaths, content \in CacheContents, mtime \in 1..MaxMtime :
          WriteFile(p, content, mtime)
    \/ \E p \in CachePaths : CacheHash(p)

SpecCache == InitCache /\ [][NextCache]_vars

(***************************************************************************)
(* Properties of the hash cache (specification SpecCache)                  *)
(***************************************************************************)
\* C28: Hash(path) returns the SHA-256 of the file's current contents on
\* every call, for any sequence of file modifications between calls
C28_HashIsCurrent ==
    [][\A p \in CachePaths : CacheHash(p) => returned'.h = hashFile(fs, p)]_vars

(***************************************************************************)
(* Pattern.Match applied on its own: given is [pattern, s], the text of a  *)
(* pattern and a concrete path; returned is [ok, captures].                *)
(***************************************************************************)
MaxPathLen == 4

PathChars == {"a", "b", "/"}

Paths == UNION {[1..n -> PathChars] : n \in 0..MaxPathLen}

\* the patterns, by their text:
\*   ab        {n}        {n}b        a/{n}       {n}{m}      {n}/{n}
\*   {n}b{n}   {n:a*}     {n:a,b?}b   {n:*}/{m:?} {n:a*}{n}   {n/a*}
\*   {n/.*}b   {n/.*}{n}  {n/a.}{m/b*}            {n/a*}/{m:b,a?}
PatternTexts ==
    {<<"a", "b">>,
     <<"{", "n", "}">>,
     <<"{", "n", "}", "b">>,
     <<"a", "/", "{", "n", "}">>,
     <<"{", "n", "}", "{", "m", "}">>,
     <<"{", "n", "}", "/", "{", "n", "}">>,
     <<"{", "n", "}", "b", "{", "n", "}">>,
     <<"{", "n", ":", "a", "*", "}">>,
     <<"{", "n", ":", "a", ",", "b", "?", "}", "b">>,
     <<"{", "n", ":", "*", "}", "/", "{", "m", ":", "?", "}">>,
     <<"{", "n", ":", "a", "*", "}", "{", "n", "}">>,
     <<"{", "n", "/", "a", "*", "}">>,
     <<"{", "n", "/", ".", "*", "}", "b">>,
     <<"{", "n", "/", ".", "*", "}", "{", "n", "}">>,
     <<"{", "n", "/", "a", ".", "}", "{", "m", "/", "b", "*", "}">>,
     <<"{", "n", "/", "a", "*", "}", "/", "{", "m", ":", "b", ",", "a", "?", "}">>}

InitPattern ==
    /\ given \in [pattern : PatternTexts, s : Paths]
    /\ returned = Unused
    /\ ev = Unused
    /\ cli = Unused /\ exe = Unused /\ fs = Unused /\ sh = Unused
    /\ state = Unused /\ saved = Unused /\ cache = Unused
    /\ building = Unused /\ results = Unused /\ calls = Unused
    /\ semHeld = 0 /\ out = Unused /\ rootCalls = 0 /\ invocation = 1
    /\ edits = Unused

\* "caps, ok := p.Match(s)" for the parsed pattern
MatchPath ==
    /\ returned = Unused
    /\ returned' = Match(ParsePattern(given.pattern), given.s)
    /\ UNCHANGED <<buildVars, ev, given>>

NextPattern == MatchPath

SpecPattern == InitPattern /\ [][NextPattern]_vars

(***************************************************************************)
(* Properties of Pattern.Match (specification SpecPattern)                 *)
(***************************************************************************)
GivenPattern == ParsePattern(given.pattern)

\* the contiguous pieces of s
Pieces(s) == {SubSeq(s, i, j) : i \in 1..(Len(s) + 1), j \in 0..Len(s)}

\* captures binds every capture name of p to a value without "/" that
\* satisfies the constraint of each of its occurrences, and Expand with
\* it gives s
Binds(p, captures, s) ==
    /\ DOMAIN captures = {p.Captures[i] : i \in 1..Len(p.Captures)}
    /\ \A name \in DOMAIN captures : ~Contains(captures[name], "/")
    /\ \A i \in 1..Len(p.Captures) :
          p.Constraints[i] # NoConstraint =>
             Matches(p.Constraints[i], captures[p.Captures[i]])
    /\ PatternExpand(p, captures) = s

\* C29: whenever Match(s) succeeds, no capture value contains "/", every
\* capture value satisfies its glob or regex constraint, every occurrence
\* of a repeated capture name is bound to the same value and Expand of the
\* returned captures gives s; Match fails only when no such binding exists
C29_MatchSoundAndComplete ==
    returned # Unused =>
        IF returned.ok
        THEN Binds(GivenPattern, returned.captures, given.s)
        ELSE ~\E captures \in [{GivenPattern.Captures[i] :
                                  i \in 1..Len(GivenPattern.Captures)}
                               -> Pieces(given.s)] :
                 Binds(GivenPattern, captures, given.s)

\* the bindings of the capture names of the given pattern that match the
\* given path
GivenBindings ==
    {captures \in [{GivenPattern.Captures[i] : i \in 1..Len(GivenPattern.Captures)}
                     -> Pieces(given.s)] :
        Binds(GivenPattern, captures, given.s)}

\* the length of what binding c gives the capture at position i
SpanAt(c, i) == Len(c[GivenPattern.Captures[i]])

\* binding c differs from c2 first at a capture where c has the longer span
LongerFirst(c, c2) ==
    \E i \in 1..Len(GivenPattern.Captures) :
        /\ \A j \in 1..(i - 1) : SpanAt(c, j) = SpanAt(c2, j)
        /\ SpanAt(c, i) > SpanAt(c2, i)

\* C38: the captures returned by Match are those of the binding in which
\* each capture, from left to right, has the longest span that lets the
\* rest of the pattern match
C38_CapturesMaximal ==
    (returned # Unused /\ returned.ok /\ IsPattern(GivenPattern)) =>
        \A c2 \in GivenBindings \ {returned.captures} :
            LongerFirst(returned.captures, c2)

\* C38 amended: the captures returned by Match are those of the binding in
\* which each capture, from left to right, has the shortest span that lets
\* the rest of the pattern match; a last capture with nothing after it
\* takes what is left
C38_CapturesMinimal ==
    (returned # Unused /\ returned.ok /\ IsPattern(GivenPattern)) =>
        /\ returned.captures \in GivenBindings
        /\ \A c2 \in GivenBindings \ {returned.captures} :
              LongerFirst(c2, returned.captures)

\* "{n}{m}" matches "ab" with n empty and m = ab, although n = ab, m empty
\* and n = a, m = b match as well
C38_Witness ==
    /\ returned # Unused
    /\ given.pattern = <<"{", "n", "}", "{", "m", "}">>
    /\ given.s = <<"a", "b">>
    /\ returned.ok
    /\ returned.captures = (<<"n">> :> << >>) @@ (<<"m">> :> <<"a", "b">>)
    /\ Cardinality(GivenBindings) = 3

\* "{n:a*}{n}" matches "abab" with n = ab
C29_Witness ==
    /\ returned # Unused
    /\ given.pattern = <<"{", "n", ":", "a", "*", "}", "{", "n", "}">>
    /\ given.s = <<"a", "b", "a", "b">>
    /\ returned.ok
    /\ returned.captures = (<<"n">> :> <<"a", "b">>)

(***************************************************************************)
(* Parse, the joining of continued lines: given is the lines the scanner   *)
(* read, returned the lines handed to the parser.                          *)
(***************************************************************************)
MaxLines == 3

\* the lines:  (empty)   a   a\   a \   \   \\   (space)b
RawLineTexts ==
    {<< >>, <<"a">>, <<"a", "\\">>, <<"a", " ", "\\">>, <<"\\">>,
     <<"\\", "\\">>, <<" ", "b">>}

RawLines == UNION {[1..n -> RawLineTexts] : n \in 0..MaxLines}

EndsInBackslash(line) == Len(line) > 0 /\ line[Len(line)] = "\\"

\* a variant that puts a space where the backslash was
joinLine_Space(line, successor) == Take(line, Len(line) - 1) \o <<" ">> \o successor

\* "line = line[:len(line)-1] + rawLines[i+1]"
joinLine(line, successor) == Take(line, Len(line) - 1) \o successor

\* the loops of Parse over rawLines from line i on (counted from 1), line
\* being what the inner loop has joined so far
RECURSIVE joinLines(_, _, _)
joinLines(rawLines, i, line) ==
    IF EndsInBackslash(line) /\ i + 1 <= Len(rawLines)
    THEN joinLines(rawLines, i + 1, joinLine(line, rawLines[i + 1]))
    ELSE IF i + 1 <= Len(rawLines)
    THEN <<line>> \o joinLines(rawLines, i + 1, rawLines[i + 1])
    ELSE <<line>>

JoinContinuations(rawLines) ==
    IF Len(rawLines) = 0 THEN << >> ELSE joinLines(rawLines, 1, rawLines[1])

InitParse ==
    /\ given \in RawLines
    /\ returned = Unused
    /\ ev = Unused
    /\ cli = Unused /\ exe = Unused /\ fs = Unused /\ sh = Unused
    /\ state = Unused /\ saved = Unused /\ cache = Unused
    /\ building = Unused /\ results = Unused /\ calls = Unused
    /\ semHeld = 0 /\ out = Unused /\ rootCalls = 0 /\ invocation = 1
    /\ edits = Unused

\* the second pass of Parse
JoinLines ==
    /\ returned = Unused
    /\ returned' = JoinContinuations(given)
    /\ UNCHANGED <<buildVars, ev, given>>

NextParse == JoinLines

SpecParse == InitParse /\ [][NextParse]_vars

(***************************************************************************)
(* Properties of the line continuation (specification SpecParse)           *)
(***************************************************************************)
IsBackslash(c) == c = "\\"

IsSpace(c) == c = " "

IsOther(c) == ~IsBackslash(c) /\ ~IsSpace(c)

\* the number of lines that were joined with their successor
Joins == Len(given) - Len(returned)

\* C30 as stated: a line ending in a backslash is joined with the following
\* line with the backslash replaced by a single space: each join turns one
\* backslash into one space and leaves the rest of the text as it is
C30_BackslashBecomesSpace ==
    returned # Unused =>
        /\ SelectSeq(Flatten(returned), IsOther) = SelectSeq(Flatten(given), IsOther)
        /\ Len(SelectSeq(Flatten(returned), IsBackslash))
              = Len(SelectSeq(Flatten(given), IsBackslash)) - Joins
        /\ Len(SelectSeq(Flatten(returned), IsSpace))
              = Len(SelectSeq(Flatten(given), IsSpace)) + Joins

\* C30 amended: a line ending in a backslash is joined with the following
\* line with the backslash removed and nothing put in its place: each join
\* takes one backslash away, the rest of the text, spaces included, is as
\* it was, and only the last line handed to the parser may end in a
\* backslash
C30_BackslashRemoved ==
    returned # Unused =>
        /\ SelectSeq(Flatten(returned), LAMBDA c : ~IsBackslash(c))
              = SelectSeq(Flatten(given), LAMBDA c : ~IsBackslash(c))
        /\ Len(SelectSeq(Flatten(returned), IsBackslash))
              = Len(SelectSeq(Flatten(given), IsBackslash)) - Joins
        /\ \A i \in 1..(Len(returned) - 1) : ~EndsInBackslash(returned[i])

\* "a\" followed by "a" is handed to the parser as "aa"
C30_Witness ==
    /\ given = << <<"a", "\\">>, <<"a">> >>
    /\ returned = << <<"a", "a">> >>

(***************************************************************************)
(* Fair executions.  The Go scheduler runs every goroutine that can take a  *)
(* step, and the recipes of the buildfiles end: as long as some step of    *)
(* the executor is possible, one is taken.  Nothing is assumed about when  *)
(* main.run starts the next Build or the next invocation.                  *)
(***************************************************************************)
ExecutorStep ==
    \/ \E c \in Calls : BuildEnter(c)
    \/ \E c \in Calls : AwaitDone(c)
    \/ \E c \in Calls : AfterPrereqs(c)
    \/ \E c \in Calls : StartRecipe(c)
    \/ \E c \in Calls, stream \in {"stdout", "stderr"} : RecipeWrite(c, stream)
    \/ \E c \in Calls, ok \in BOOLEAN, partial \in BOOLEAN : RecipeExit(c, ok, partial)

\* ENABLED <<ExecutorStep>>_vars, written out from the guards of the steps:
\* a call about to enter Build or running its recipe can step, a call
\* waiting on a result can step once the result is closed, a call waiting
\* on its prerequisites once they have all returned, and a call waiting for
\* a slot once one is free
CanStep ==
    \E c \in Calls :
        \/ calls[c].pc \in {"start", "running"}
        \/ calls[c].pc = "waitdone" /\ results[calls[c].res].done
        \/ calls[c].pc = "wgwait" /\ WaitGroupDone(c)
        \/ calls[c].pc = "acquire" /\ SlotFree

\* WF_vars(ExecutorStep), with CanStep for ENABLED <<ExecutorStep>>_vars
Fairness == []<>~CanStep \/ []<><<ExecutorStep>>_vars

SpecLive == Init /\ [][Next]_vars /\ Fairness

(***************************************************************************)
(* Properties of termination (specification SpecLive)                      *)
(***************************************************************************)
\* the calls that hold a slot of the semaphore
Holders == {c \in Calls : calls[c].pc = "running"}

\* the calls that wait for a prerequisite or for another call's result
Waiters == {c \in Calls : calls[c].pc \in {"wgwait", "waitdone"}}

\* every Build call has returned, every registered result is closed and
\* every slot is free
AllReturned ==
    /\ \A c \in Calls : calls[c].pc = "done"
    /\ \A r \in 1..Len(results) : results[r].done
    /\ semHeld = 0

\* C31: for every acyclic dependency graph, every worker budget and every
\* interleaving, each Build call eventually returns: the completion signal
\* of every registered result is eventually closed, every acquired slot is
\* released, and no slot is held while waiting for a prerequisite
C31_EveryBuildReturns ==
    /\ [](/\ Holders \cap Waiters = {}
          /\ exe.semCap # 0 => semHeld = Cardinality(Holders) /\ semHeld <= exe.semCap)
    /\ []<>AllReturned

\* two goroutines have waited for one result, a prerequisite has failed and
\* everything has returned
C31_Witness ==
    /\ AllReturned
    /\ \E c, k \in Calls : c # k /\ calls[c].res = calls[k].res /\ calls[c].res # 0
    /\ \E c \in Calls : calls[c].err # Nil
    /\ \E c \in Calls : calls[c].ran

(***************************************************************************)
(* Buildfiles with a cycle.  Neither the parser, BuildGraph, Resolve nor   *)
(* the executor looks for one.                                             *)
(***************************************************************************)
\* a: a
SelfCycle ==
    [rules |-> << Rule(<< <<"a">> >>, << <<"a">> >>, << >>, CcRecipe) >>,
     files |-> NoFiles,
     goals |-> {<<"a">>},
     noisy |-> Quiet,
     flaky |-> {}]

\* a: b / b: | a
TwoCycle ==
    [rules |-> << Rule(<< <<"a">> >>, << <<"b">> >>, << >>, CcRecipe),
                  Rule(<< <<"b">> >>, << >>, << <<"a">> >>, CcRecipe) >>,
     files |-> NoFiles,
     goals |-> {<<"a">>, <<"b">>},
     noisy |-> Quiet,
     flaky |-> {}]

\* t: l c / l: s / c: c / u: l, the cycle below one of the goals only
CycleBelow ==
    [rules |-> << Rule(<< <<"t">> >>, << <<"l">>, <<"c">> >>, << >>, CatRecipe),
                  Rule(<< <<"l">> >>, << <<"s">> >>, << >>, CatRecipe),
                  Rule(<< <<"c">> >>, << <<"c">> >>, << >>, CcRecipe),
                  Rule(<< <<"u">> >>, << <<"l">> >>, << >>, CatRecipe) >>,
     files |-> SourceFiles({<<"s">>}),
     goals |-> {<<"t">>, <<"u">>},
     noisy |-> (<<"l">> :> {"stdout"}),
     flaky |-> {<<"l">>}]

CycleBuildfiles == {SelfCycle, TwoCycle, CycleBelow, Diamond}

InitCycle == \E flags \in FlagSets : InitWith(CycleBuildfiles, JobsArgs, flags)

SpecCycle == InitCycle /\ [][Next]_vars

(***************************************************************************)
(* Properties of cycles (specification SpecCycle)                          *)
(***************************************************************************)
\* the prerequisites, order-only ones included, that the rules of the
\* buildfile give target t
Edges(t) ==
    UNION {Range(cli.file.rules[i].Prereqs \o cli.file.rules[i].OrderOnlyPrereqs) :
             i \in {j \in 1..Len(cli.file.rules) : t \in Range(cli.file.rules[j].Targets)}}

RECURSIVE ReachFrom(_, _)
\* the targets reachable from the set ts by one or more prerequisite edges
ReachFrom(ts, seen) ==
    LET next == UNION {Edges(t) : t \in ts} \ seen
    IN  IF next = {} THEN seen ELSE ReachFrom(next, seen \cup next)

Below(t) == ReachFrom({t}, {})

\* the prerequisite graph reachable from t contains a cycle
HasCycle(t) == t \in Below(t) \/ \E x \in Below(t) : x \in Below(x)

\* the calls above call c: its parent, the parent's parent, ...
RECURSIVE Ancestors(_)
Ancestors(c) ==
    IF calls[c].parent = 0 THEN {} ELSE {calls[c].parent} \cup Ancestors(calls[c].parent)

\* C32: a Build call for a target whose prerequisite graph contains a cycle
\* never returns, and no call for such a target returns an error
C32_CycleNeverReturns ==
    \A c \in Calls :
        HasCycle(calls[c].target) => calls[c].pc # "done" /\ calls[c].err = Nil

\* the requested target's graph has a cycle; a call waits on the result
\* registered by a call above it, which waits for its prerequisites, and the
\* executor can take no step
C32_Witness ==
    /\ \E c \in Calls :
          /\ calls[c].pc = "waitdone"
          /\ ~results[calls[c].res].done
          /\ \E a \in Ancestors(c) :
                /\ calls[a].res = calls[c].res
                /\ calls[a].pc = "wgwait"
          /\ \E a \in Ancestors(c) : calls[a].parent = 0 /\ HasCycle(calls[a].target)
    /\ ~CanStep

(***************************************************************************)
(* Fingerprint rules between builds: besides the edits of SpecStale, a     *)
(* file (a target included) may be removed while no build is running.      *)
(***************************************************************************)
RemoveFile(p) ==
    /\ Quiescent
    /\ Len(edits) < MaxEdits
    /\ p \in DOMAIN fs
    /\ fs' = MapDel(fs, {p})
    /\ edits' = Append(edits, [inv |-> invocation, path |-> p,
                               from |-> fs[p].content, to |-> 0])
    /\ UNCHANGED <<unitVars, cli, exe, sh, state, saved, cache, building, results, calls,
                   semHeld, out, rootCalls, invocation>>

InitFingerprint == \E flags \in StaleFlagSets : InitWith({Fingerprinted}, {2}, flags)

NextFingerprint ==
    \/ NextStale
    \/ \E p \in DOMAIN fs : RemoveFile(p)

SpecFingerprint == InitFingerprint /\ [][NextFingerprint]_vars

(***************************************************************************)
(* Properties of fingerprint rules (specification SpecFingerprint)         *)
(***************************************************************************)
\* what a fingerprint rule's staleness may depend on: a target without a
\* record, a recorded recipe hash that differs from the hash of the recipe
\* text, a fingerprint command that fails or whose output hashes to another
\* value than the recorded one
FingerprintStale(Targets, targets, recipeText, shell) ==
    \E i \in 1..Len(targets) :
        \/ targets[i] \notin DOMAIN Targets
        \/ Targets[targets[i]].RecipeHash # hashString(recipeText)
        \/ ~shell.ok
        \/ Targets[targets[i]].FingerprintHash # hashString(shell.out)

\* the file system with one change: a target removed, a prerequisite
\* rewritten or removed
FsVariants(rule) ==
    {fs}
    \cup {MapDel(fs, {t}) : t \in Range(rule.targets)}
    \cup {MapDel(fs, {p}) : p \in Range(rule.prereqs)}
    \cup {[fs EXCEPT ![p] = [content |-> k, meta |-> <<MaxInvocations + 1, k, 0>>]] :
            p \in Range(rule.prereqs) \cap DOMAIN fs, k \in Contents}

\* the prerequisite list with one change
PrereqVariants(rule) ==
    {rule.prereqs, << >>, rule.prereqs \o <<<<"z">>>>, rule.orderOnlyPrereqs}

\* C33: for a rule with a fingerprint command, IsStale is decided by the
\* records, the recipe hash and the fingerprint command alone: with any
\* prerequisite list and with a target removed or a prerequisite rewritten
\* or removed, it answers the same
C33_FingerprintDecides ==
    \A t \in cli.file.goals :
        \A r \in {Resolve(exe.graph, fs, t)} :
            (r.err = Nil /\ r.rule.fingerprint # << >>) =>
                \A text \in {expandRecipe(exe.vars, state, r.rule, fs, cache).text},
                   fp \in {expandFingerprint(exe.vars, r.rule)} :
                    \A files \in FsVariants(r.rule), ps \in PrereqVariants(r.rule) :
                        IsStale(state, r.rule.targets, ps, text, fp, files, sh, cache).stale
                            = FingerprintStale(state, r.rule.targets, text, sh)

\* in a later invocation, after the prerequisite was rewritten and the
\* target removed, the staleness check found the target up to date and the
\* recipe did not run
C33_Witness ==
    /\ invocation > 1
    /\ \E i, j \in 1..Len(edits) :
          /\ edits[i].path = <<"s">> /\ edits[i].to # 0
          /\ edits[j].path = <<"i">> /\ edits[j].to = 0
    /\ <<"i">> \notin DOMAIN fs
    /\ \E c \in Calls :
          /\ calls[c].rule.fingerprint # << >>
          /\ calls[c].pc = "done"
          /\ calls[c].err = Nil
          /\ ~calls[c].ran
    /\ ~cli.force

(***************************************************************************)
(* Prerequisites that cannot be hashed: the name of a task, a file that    *)
(* was removed.                                                            *)
(***************************************************************************)
\* o: p s / !p:, both with a recipe: p is a task, no file p ever exists
TaskPrereq ==
    [rules |-> << Rule(<< <<"o">> >>, << <<"p">>, <<"s">> >>, << >>, CatRecipe),
                  [Rule(<< <<"p">> >>, << >>, << >>, CcRecipe) EXCEPT !.IsTask = TRUE] >>,
     files |-> SourceFiles({<<"s">>}),
     goals |-> {<<"o">>},
     noisy |-> (<<"o">> :> {"stdout"}),
     flaky |-> {<<"o">>}]

InitUnhashable ==
    \E flags \in StaleFlagSets : InitWith({TaskPrereq, OrderOnly}, {1, 2}, flags)

\* builds, and between them files rewritten or removed
NextUnhashable ==
    \/ Next
    \/ \E p \in DOMAIN fs, content \in Contents : EditFile(p, content)
    \/ \E p \in DOMAIN fs : RemoveFile(p)

SpecUnhashable == InitUnhashable /\ [][NextUnhashable]_vars

(***************************************************************************)
(* Properties of unhashable prerequisites (specification SpecUnhashable)   *)
(***************************************************************************)
\* the normal prerequisites of rule that cache.Hash fails on
Unhashable(rule) ==
    {p \in Range(rule.prereqs) : HashCacheHash(cache, fs, p).err}

\* a rule of file mode with a recipe
FileRule(rule) ==
    ~rule.isTask /\ rule.fingerprint = << >> /\ Len(rule.recipe) > 0

\* the staleness check of a file rule with an unhashable normal
\* prerequisite answers stale
StaleWhenUnhashable ==
    \A t \in cli.file.goals :
        \A r \in {Resolve(exe.graph, fs, t)} :
            (r.err = Nil /\ FileRule(r.rule) /\ Unhashable(r.rule) # {}) =>
                IsStale(state, r.rule.targets, StalenessPrereqs(r.rule),
                        expandRecipe(exe.vars, state, r.rule, fs, cache).text,
                        << >>, fs, sh, cache).stale

\* every record holds the hashes of the prerequisites that could be hashed
\* and no entry for the others
RecordSkipsUnhashable ==
    \A t \in DOMAIN state :
        \A p \in Range(state[t].Prereqs) :
            p \in DOMAIN state[t].InputHashes => state[t].InputHashes[p] # EmptyHash

\* a Build that returned without error for a file rule with an unhashable
\* normal prerequisite ran the recipe (in this invocation, whichever it is)
RerunWhenUnhashable ==
    (\A i \in 1..Len(edits) : edits[i].inv < invocation) =>
        \A c \in Calls :
            (/\ calls[c].pc = "done"
             /\ calls[c].err = Nil
             /\ calls[c].rule # NoRule
             /\ FileRule(calls[c].rule)
             /\ Unhashable(calls[c].rule) # {}
             /\ \A k \in Calls : k < c => calls[k].res # calls[c].res) =>
                calls[c].ran \/ cli.dryRun

Prefixed(target, text) == target \o <<":", " ">> \o <<text>>

\* fmt.Sprintf("%q", p)
Quoted(p) == <<"\"">> \o p \o <<"\"">>

\* the "%v" of the error of os.Stat on a missing path
ErrNotExistText == "no such file or directory"

\* the "%v" of ErrExit
ErrExitText == "exit status 1"

\* a WhyStale that names the target in front of "recipe has changed"
RecipeChanged_Prefixed(target) == Prefixed(target, "recipe has changed")

\* the reason of a changed recipe hash
RecipeChanged(target) == <<"recipe has changed">>

\* a loop over the prerequisites that reports nothing
WhyPrereqs_Silent(ts, prereqs, j, files, hc) == [reasons |-> << >>, cache |-> hc]

\* the loop "for _, p := range prereqs" of WhyStale from prereq j on:
\* [reasons, cache]
RECURSIVE WhyPrereqs(_, _, _, _, _)
WhyPrereqs(ts, prereqs, j, files, hc) ==
    IF j > Len(prereqs) THEN [reasons |-> << >>, cache |-> hc]
    ELSE \* bound once: the hash of prereq j and the reasons of the rest
         CHOOSE x \in
           {[reasons |->
               (IF h.err
                THEN << <<"cannot hash prerequisite ">> \o Quoted(prereqs[j])
                        \o <<":", " ">> \o <<ErrNotExistText>> >>
                ELSE IF InputHashOf(ts, prereqs[j]) # h.h
                THEN << <<"prerequisite ">> \o Quoted(prereqs[j])
                        \o <<" has changed">> >>
                ELSE << >>) \o rest.reasons,
             cache |-> rest.cache] :
              h \in {HashCacheHash(hc, files, prereqs[j])},
              rest \in {WhyPrereqs(ts, prereqs, j + 1, files,
                                   HashCacheHash(hc, files, prereqs[j]).cache)}} : TRUE

\* the reasons WhyStale appends for target i, which has a record
WhyOne(ts, target, prereqs, recipeText, fingerprint, files, shell, hc) ==
    LET fph == runFingerprint(shell, fingerprint)
        ins == WhyPrereqs(ts, prereqs, 1, files, hc)
    IN  [reasons |->
            (IF ts.RecipeHash # hashString(recipeText)
             THEN <<RecipeChanged(target)>> ELSE << >>)
            \o (IF fingerprint # << >>
                THEN (IF fph.err
                      THEN <<target \o <<":", " ">> \o <<"fingerprint command failed: ">>
                             \o <<ErrExitText>> >>
                      ELSE IF ts.FingerprintHash # fph.h
                      THEN <<Prefixed(target, "fingerprint has changed")>>
                      ELSE << >>)
                ELSE (IF target \notin DOMAIN files
                      THEN <<Prefixed(target, "target file does not exist")>>
                      ELSE << >>)
                     \o (IF ~stringSliceEqual(SortStrings(prereqs),
                                              SortStrings(ts.Prereqs))
                         THEN << <<"prerequisite set has changed">> >>
                         ELSE << >>)
                     \o ins.reasons),
         cache |-> IF fingerprint # << >> THEN hc ELSE ins.cache]

\* the loop "for i, ts := range snapshots" of WhyStale from target i on
RECURSIVE WhyTargets(_, _, _, _, _, _, _, _, _)
WhyTargets(Targets, targets, i, prereqs, recipeText, fingerprint, files, shell, hc) ==
    IF i > Len(targets) THEN [reasons |-> << >>, cache |-> hc]
    ELSE LET one == IF targets[i] \notin DOMAIN Targets
                    THEN [reasons |-> <<Prefixed(targets[i],
                                                 "no previous build recorded")>>,
                          cache |-> hc]
                    ELSE WhyOne(Targets[targets[i]], targets[i], prereqs,
                                recipeText, fingerprint, files, shell, hc)
             rest == WhyTargets(Targets, targets, i + 1, prereqs, recipeText,
                                fingerprint, files, shell, one.cache)
         IN  [reasons |-> one.reasons \o rest.reasons, cache |-> rest.cache]

\* BuildState.WhyStale: the reasons
WhyStale(Targets, targets, prereqs, recipeText, fingerprint, files, shell, hc) ==
    WhyTargets(Targets, targets, 1, prereqs, recipeText, fingerprint, files, shell,
               hc).reasons

\* x y: s, recipe "-cc $input": two outputs, a line whose failure is ignored
TryPair ==
    [rules |-> << Rule(<< <<"x">>, <<"y">> >>, << <<"s">> >>, << >>, TryRecipe) >>,
     files |-> SourceFiles({<<"s">>}),
     goals |-> {<<"x">>},
     noisy |-> Quiet,
     flaky |-> {}]

WhyBuildfiles == {OrderOnly, Fingerprinted, Changed, TryPair}

InitWhy == InitWith(WhyBuildfiles, {2}, <<FALSE, FALSE, FALSE>>)

SpecWhy == InitWhy /\ [][NextFingerprint]_vars

(***************************************************************************)
(* Properties of mk --why (specification SpecWhy)                          *)
(***************************************************************************)
\* the rules that the goals of the buildfile resolve to now
GoalRules ==
    {r.rule : r \in {x \in {Resolve(exe.graph, fs, t) : t \in cli.file.goals} :
                       x.err = Nil /\ Len(x.rule.recipe) > 0}}

\* reason x names a condition of staleness that holds for some target
ReasonHolds(x, Targets, targets, prereqs, recipeText, fingerprint, files, shell, hc) ==
    \E i \in 1..Len(targets) :
        LET t == targets[i]
        IN  IF t \notin DOMAIN Targets
            THEN x = Prefixed(t, "no previous build recorded")
            ELSE
            \/ /\ x = <<"recipe has changed">>
               /\ Targets[t].RecipeHash # hashString(recipeText)
            \/ /\ fingerprint # << >>
               /\ x = t \o <<":", " ">> \o <<"fingerprint command failed: ">>
                        \o <<ErrExitText>>
               /\ ~shell.ok
            \/ /\ fingerprint # << >>
               /\ x = Prefixed(t, "fingerprint has changed")
               /\ shell.ok
               /\ Targets[t].FingerprintHash # hashString(shell.out)
            \/ /\ fingerprint = << >>
               /\ x = Prefixed(t, "target file does not exist")
               /\ t \notin DOMAIN files
            \/ /\ fingerprint = << >>
               /\ x = <<"prerequisite set has changed">>
               /\ SortStrings(prereqs) # SortStrings(Targets[t].Prereqs)
            \/ /\ fingerprint = << >>
               /\ \E p \in Range(prereqs) :
                     \/ /\ x = <<"cannot hash prerequisite ">> \o Quoted(p)
                                 \o <<":", " ">> \o <<ErrNotExistText>>
                        /\ p \notin DOMAIN files
                     \/ /\ x = <<"prerequisite ">> \o Quoted(p) \o <<" has changed">>
                        /\ p \in DOMAIN files
                        /\ InputHashOf(Targets[t], p) # hashFile(files, p)

\* C35: with the same arguments, build state and files, WhyStale returns
\* reasons exactly when IsStale answers stale, and each reason names a
\* condition that holds
C35_WhyMatchesIsStale ==
    \A rule \in GoalRules :
        \A text \in {expandRecipe(exe.vars, state, rule, fs, cache).text},
           fp \in {expandFingerprint(exe.vars, rule)} :
            \A ps \in PrereqVariants(rule) :
                \A why \in {WhyStale(state, rule.targets, ps, text, fp, fs, sh, cache)} :
                    /\ (why # << >>)
                          = IsStale(state, rule.targets, ps, text, fp, fs, sh, cache).stale
                    /\ \A k \in 1..Len(why) :
                          ReasonHolds(why[k], state, rule.targets, ps, text, fp,
                                      fs, sh, cache)

\* between two runs: a target with a record whose only reason is a
\* rewritten prerequisite, and a recorded target that is up to date
C35_Witness ==
    /\ Quiescent
    /\ \E rule \in GoalRules :
          /\ rule.fingerprint = << >>
          /\ Range(rule.targets) \subseteq DOMAIN state
          /\ Len(WhyStale(state, rule.targets, rule.prereqs,
                          expandRecipe(exe.vars, state, rule, fs, cache).text,
                          << >>, fs, sh, cache)) = 1
          /\ IsStale(state, rule.targets, rule.prereqs,
                     expandRecipe(exe.vars, state, rule, fs, cache).text,
                     << >>, fs, sh, cache).stale
          /\ \E i \in 1..Len(edits) : edits[i].path \in Range(rule.prereqs)

\* the variables WhyRebuild sets on the clone of the graph's variables
WhyVars(gv, rule) ==
    LET v1 == VarsSet(gv, <<"t", "a", "r", "g", "e", "t">>, rule.target)
        v2 == IF Len(rule.prereqs) > 0
              THEN VarsSet(v1, <<"i", "n", "p", "u", "t">>, rule.prereqs[1])
              ELSE v1
    IN  VarsSet(v2, <<"i", "n", "p", "u", "t", "s">>, Join(rule.prereqs, <<" ">>))

\* recipeText of WhyRebuild: the lines without their @ and - prefixes,
\* expanded and joined
WhyRecipeText(gv, rule) ==
    Join([i \in 1..Len(rule.recipe) |->
            VarsExpand(WhyVars(gv, rule), StripPrefixes(rule.recipe[i], FALSE).l)],
         <<"\n">>)

\* fingerprint of WhyRebuild
WhyFingerprint(gv, rule) ==
    IF rule.fingerprint = << >> THEN << >>
    ELSE VarsExpand(WhyVars(gv, rule), rule.fingerprint)

\* Graph.WhyRebuild: [err, reasons]
WhyRebuild(g, gv, Targets, files, shell, target) ==
    CHOOSE x \in
      {IF r.err # Nil THEN [err |-> r.err, reasons |-> << >>]
       ELSE IF Len(r.rule.recipe) = 0 THEN [err |-> Nil, reasons |-> << >>]
       ELSE [err |-> Nil,
             reasons |-> WhyStale(Targets, r.rule.targets, r.rule.prereqs,
                                  WhyRecipeText(gv, r.rule),
                                  WhyFingerprint(gv, r.rule), files, shell, NoCache)] :
         r \in {Resolve(g, files, target)}} : TRUE

\* C36: when an invocation starts, for every goal with a recipe, mk --why
\* hands WhyStale the recipe text and the fingerprint that the executor
\* hands IsStale, and reports "up to date" exactly when a build without
\* force would skip the recipe
C36_WhySameAsBuild ==
    calls = << >> =>
        \A t \in cli.file.goals :
            \A r \in {Resolve(exe.graph, fs, t)} :
                (r.err = Nil /\ Len(r.rule.recipe) > 0) =>
                    \A chk \in {StaleCheck([exe EXCEPT !.force = FALSE], state, r.rule,
                                           fs, sh, cache)} :
                        /\ WhyRecipeText(exe.vars, r.rule) = chk.text
                        /\ WhyFingerprint(exe.vars, r.rule) = chk.fingerprint
                        /\ (WhyRebuild(exe.graph, exe.vars, state, fs, sh, t).reasons = << >>)
                              = chk.skip

\* reason x starts with the name of one of the targets, a colon and a space
HasTargetPrefix(x, targets) ==
    \E i \in 1..Len(targets) : HasPrefix(x, targets[i] \o <<":", " ">>)

\* the messages about the target itself
TargetMessages ==
    {"no previous build recorded", "fingerprint command failed: ",
     "fingerprint has changed", "target file does not exist"}

\* the first words of the messages about the recipe and the prerequisites
SharedMessages ==
    {"recipe has changed", "prerequisite set has changed",
     "cannot hash prerequisite ", "prerequisite "}

\* the lists of reasons that WhyStale returns for the goals, with the
\* rule's prerequisite list and with other lists
GoalReasons ==
    UNION {{[targets |-> rule.targets,
             why |-> WhyStale(state, rule.targets, ps,
                              expandRecipe(exe.vars, state, rule, fs, cache).text,
                              expandFingerprint(exe.vars, rule), fs, sh, cache)] :
              ps \in PrereqVariants(rule)} : rule \in GoalRules}

\* C37: every reason of WhyStale starts with the name of a target
C37_EveryReasonPrefixed ==
    \A g \in GoalReasons :
        \A k \in 1..Len(g.why) : HasTargetPrefix(g.why[k], g.targets)

\* C37 amended: the reasons about the target itself (no record, fingerprint
\* command failed, fingerprint changed, target file missing) start with the
\* name of the target; the reasons about the recipe and the prerequisites
\* (recipe changed, prerequisite set changed, prerequisite changed or
\* unhashable) name no target
C37_TargetReasonsPrefixed ==
    \A g \in GoalReasons :
        \A k \in 1..Len(g.why) :
            /\ HasTargetPrefix(g.why[k], g.targets)
                  = (\E msg \in TargetMessages : msg \in Range(g.why[k]))
            /\ ~HasTargetPrefix(g.why[k], g.targets) => g.why[k][1] \in SharedMessages

\* a group of two targets between two runs: one reason names the target
\* whose file is missing, another names no target
C37_Witness ==
    /\ Quiescent
    /\ \E g \in GoalReasons :
          /\ Len(g.targets) = 2
          /\ \A i \in 1..2 : g.targets[i] \in DOMAIN state
          /\ \E k \in 1..Len(g.why) : HasTargetPrefix(g.why[k], g.targets)
          /\ \E k \in 1..Len(g.why) : ~HasTargetPrefix(g.why[k], g.targets)

(***************************************************************************)
(* HashCache.Hash called by several goroutines while files are written.    *)
(* One call is four steps: os.Stat, the lookup under the mutex, hashFile   *)
(* outside the mutex, the store under the mutex.  given[g] is the call of  *)
(* goroutine g, [pc, path, meta, h]; ev[p] is the set of [meta, content]   *)
(* that file p has had; returned is the last result, [path, h].            *)
(***************************************************************************)
Goroutines == {1, 2}

\* the file that is hashed and written
RacePaths == {<<"a">>}

Idle == [pc |-> "idle", path |-> << >>, meta |-> <<0, 0>>, h |-> EmptyHash]

InitRace ==
    /\ fs = [p \in RacePaths |-> [content |-> 1, meta |-> <<1, Size(1)>>]]
    /\ cache = NoCache
    /\ given = [g \in Goroutines |-> Idle]
    /\ ev = [p \in RacePaths |-> {[meta |-> <<1, Size(1)>>, content |-> 1]}]
    /\ returned = Unused
    /\ cli = Unused /\ exe = Unused /\ sh = Unused
    /\ state = Unused /\ saved = Unused
    /\ building = Unused /\ results = Unused /\ calls = Unused
    /\ semHeld = 0 /\ out = Unused /\ rootCalls = 0 /\ invocation = 1
    /\ edits = Unused

\* "info, err := os.Stat(path)": the call keeps the mtime and the size
HashStat(g, p) ==
    /\ given[g].pc = "idle"
    /\ given' = [given EXCEPT ![g] = [pc |-> "lookup", path |-> p,
                                      meta |-> fs[p].meta, h |-> EmptyHash]]
    /\ UNCHANGED <<buildVars, ev, returned>>

\* the first critical section: a hit returns the cached hash
HashLookup(g) ==
    /\ given[g].pc = "lookup"
    /\ LET p == given[g].path
       IN  IF p \in DOMAIN cache /\ cache[p].meta = given[g].meta
           THEN /\ returned' = [path |-> p, h |-> cache[p].hash]
                /\ given' = [given EXCEPT ![g] = Idle]
           ELSE /\ given' = [given EXCEPT ![g].pc = "read"]
                /\ UNCHANGED returned
    /\ UNCHANGED <<buildVars, ev>>

\* "h, err := hashFile(path)", with no lock held
HashRead(g) ==
    /\ given[g].pc = "read"
    /\ given' = [given EXCEPT ![g].pc = "store",
                              ![g].h = hashFile(fs, given[g].path)]
    /\ UNCHANGED <<buildVars, ev, returned>>

\* the second critical section: "c.entries[path] = cacheEntry{mtime, size, h}"
HashStore(g) ==
    /\ given[g].pc = "store"
    /\ cache' = MapSet(cache, given[g].path,
                       [meta |-> given[g].meta, hash |-> given[g].h])
    /\ returned' = [path |-> given[g].path, h |-> given[g].h]
    /\ given' = [given EXCEPT ![g] = Idle]
    /\ UNCHANGED <<ev, cli, exe, fs, sh, state, saved, building, results,
                   calls, semHeld, out, rootCalls, invocation, edits>>

\* a recipe writes file p while the calls of Hash are under way
RaceWrite(p, content, mtime) ==
    /\ content # fs[p].content
    /\ mtime >= fs[p].meta[1]
    /\ fs' = [fs EXCEPT ![p] = [content |-> content, meta |-> <<mtime, Size(content)>>]]
    /\ ev' = [ev EXCEPT ![p] = @ \cup {[meta |-> <<mtime, Size(content)>>,
                                        content |-> content]}]
    /\ UNCHANGED <<given, returned, cli, exe, sh, state, saved, cache, building,
                   results, calls, semHeld, out, rootCalls, invocation, edits>>

NextRace ==
    \/ \E g \in Goroutines, p \in RacePaths : HashStat(g, p)
    \/ \E g \in Goroutines : HashLookup(g)
    \/ \E g \in Goroutines : HashRead(g)
    \/ \E g \in Goroutines : HashStore(g)
    \/ \E p \in RacePaths, content \in CacheContents, mtime \in 1..MaxMtime :
          RaceWrite(p, content, mtime)

SpecRace == InitRace /\ [][NextRace]_vars

(***************************************************************************)
(* Properties of the hash cache under concurrency (specification SpecRace) *)
(***************************************************************************)
\* C39: every cache entry (mtime, size, hash) holds the hash of a content
\* that the file had while os.Stat reported (mtime, size) for it
C39_EntryIsOfItsMetadata ==
    \A p \in DOMAIN cache :
        \E was \in ev[p] :
            /\ was.meta = cache[p].meta
            /\ cache[p].hash = [of |-> "bytes", n |-> was.content, s |-> << >>]

(***************************************************************************)
(* The variable store on its own: Set, SetLazy, Append and Get in any      *)
(* order.  given is the store, returned the result of the last Get, and ev *)
(* remembers the last operation, [op, name], and for each name whose       *)
(* present value a Get computed from a lazy expression, that expression.   *)
(* A lazy expression refers only to names after its own, as an expression  *)
(* that refers to itself makes Get call itself without end.                *)
(***************************************************************************)
StoreNames == {<<"x">>, <<"y">>}

StoreValues == {<< >>, <<"a">>}

\* the longest value that Append is followed to
MaxAppended == 3

\* the expressions a name may be given: "$y" and "c$y" for x, "b" for y
StoreExprs(name) ==
    IF name = <<"x">> THEN {<<"$", "y">>, <<"c", "$", "y">>}
    ELSE {<<"b">>}

NoExprs == [n \in {} |-> << >>]

InitStore ==
    /\ given \in {NewVars(NoVals), NewVars(<<"x">> :> <<"e">>)}
    /\ returned = << >>
    /\ ev = [op |-> "New", name |-> << >>, forced |-> NoExprs]
    /\ cli = Unused /\ exe = Unused /\ fs = Unused /\ sh = Unused
    /\ state = Unused /\ saved = Unused /\ cache = Unused
    /\ building = Unused /\ results = Unused /\ calls = Unused
    /\ semHeld = 0 /\ out = Unused /\ rootCalls = 0 /\ invocation = 1
    /\ edits = Unused

\* v.Set(name, value)
SetOp(name, value) ==
    /\ given' = StoreSet(given, name, value)
    /\ ev' = [op |-> "Set", name |-> name, forced |-> MapDel(ev.forced, {name})]
    /\ UNCHANGED <<buildVars, returned>>

\* v.SetLazy(name, expr)
SetLazyOp(name, expr) ==
    /\ given' = StoreSetLazy(given, name, expr)
    /\ ev' = [op |-> "SetLazy", name |-> name, forced |-> MapDel(ev.forced, {name})]
    /\ UNCHANGED <<buildVars, returned>>

\* v.Append(name, value), while the value stays within the bound
AppendOp(name, value) ==
    /\ \E v \in {StoreAppend(given, name, value)} :
          /\ Len(v.vals[name]) <= MaxAppended
          /\ given' = v
    /\ ev' = [op |-> "Append", name |-> name, forced |-> MapDel(ev.forced, {name})]
    /\ UNCHANGED <<buildVars, returned>>

\* v.Get(name)
GetOp(name) ==
    /\ \E g \in {StoreGet(given, name)} :
          /\ given' = g.v
          /\ returned' = g.val
    /\ ev' = [op |-> "Get", name |-> name,
              forced |-> IF name \in DOMAIN given.lazy
                         THEN MapSet(ev.forced, name, given.lazy[name])
                         ELSE ev.forced]
    /\ UNCHANGED buildVars

NextStore ==
    \/ \E name \in StoreNames, value \in StoreValues : SetOp(name, value)
    \/ \E name \in StoreNames : \E expr \in StoreExprs(name) : SetLazyOp(name, expr)
    \/ \E name \in StoreNames, value \in StoreValues : AppendOp(name, value)
    \/ \E name \in StoreNames : GetOp(name)

SpecStore == InitStore /\ [][NextStore]_vars

(***************************************************************************)
(* Properties of the variable store (specification SpecStore)              *)
(***************************************************************************)
\* v.vals[name], "" for a missing key
ValOf(v, name) == IF name \in DOMAIN v.vals THEN v.vals[name] ELSE << >>

\* C40: no name is at once eager and lazy; a Get of a lazy name returns
\* the expansion of its expression in the store as it is, and leaves the
\* name eager with that value; a Get of any other name returns the stored
\* value and leaves the store as it is, whatever the variables its former
\* expression refers to hold now
C40_LazyForcedOnce ==
    /\ [](DOMAIN given.vals \cap DOMAIN given.lazy = {})
    /\ [][\A name \in StoreNames :
            (ev'.op = "Get" /\ ev'.name = name) =>
                IF name \in DOMAIN given.lazy
                THEN /\ returned' = StoreExpand(given, given.lazy[name]).out
                     /\ name \notin DOMAIN given'.lazy
                     /\ ValOf(given', name) = returned'
                ELSE /\ returned' = ValOf(given, name)
                     /\ given' = given]_vars

\* x was lazy "$y" and a Get made it eager; y was set to another value
\* since; the last operation is a Get of x that returned the stored value,
\* which is not what the expression expands to now
C40_Witness ==
    /\ ev.op = "Get"
    /\ ev.name = <<"x">>
    /\ <<"x">> \in DOMAIN ev.forced
    /\ <<"x">> \in DOMAIN given.vals
    /\ returned = given.vals[<<"x">>]
    /\ returned # StoreExpand(given, ev.forced[<<"x">>]).out
====
